---- MODULE Spec2Model ----
(***************************************************************************)
(* Invoice system: the content-based classifier with its two-phase file    *)
(* migration (classification.py), the invoice field extractor (backend.py) *)
(* and the classification page that drives them (app.py).                  *)
(*                                                                         *)
(* Text is a sequence of characters.  A character is a one-element string  *)
(* for ASCII and the string "uXXXX" of its code point otherwise, so that   *)
(* "u5730" is the character 地 and <<"u5730", "u94c1">> is the text 地铁.  *)
(* Category names (directory names) are written in pinyin.                 *)
(***************************************************************************)
EXTENDS Integers, Sequences, FiniteSets, TLC

(***************************************************************************)
(* Bounds of the model.                                                    *)
(***************************************************************************)
\* pieces (keywords and single characters) a text handed to the classifier
\* is made of
MaxPieces == 2
\* PDF files in the source folder
MaxPdfs == 2
\* os.listdir returns the category folders in an order of the operating
\* system's choosing: the next folder visited is any of the first ListWindow
\* folders left, counted in the order classify_pdfs created them
ListWindow == 2

(***************************************************************************)
(* classification.py: the category table and the classifier.               *)
(***************************************************************************)
\* the default category 其他发票
DefaultCategory == "QiTaFaPiao"

\* the dict `categories` of classify_pdfs, in insertion order
categories ==
  << 
     \* 地铁发票: 地铁, 城市轨道, 轨道交通, 城市轨道交通服务, 地铁集团, 三号线
     [name |-> "DiTieFaPiao",
      keywords |-> <<<<"u5730", "u94c1">>,
          <<"u57ce", "u5e02", "u8f68", "u9053">>,
          <<"u8f68", "u9053", "u4ea4", "u901a">>,
          <<"u57ce", "u5e02", "u8f68", "u9053", "u4ea4", "u901a", "u670d", "u52a1">>,
          <<"u5730", "u94c1", "u96c6", "u56e2">>,
          <<"u4e09", "u53f7", "u7ebf">>>>],
     \* 高铁发票: 铁路, 无座, 硬座, 二等座, 高铁, 动车, 火车票
     [name |-> "GaoTieFaPiao",
      keywords |-> <<<<"u94c1", "u8def">>,
          <<"u65e0", "u5ea7">>,
          <<"u786c", "u5ea7">>,
          <<"u4e8c", "u7b49", "u5ea7">>,
          <<"u9ad8", "u94c1">>,
          <<"u52a8", "u8f66">>,
          <<"u706b", "u8f66", "u7968">>>>],
     \* 滴滴打车发票: 客运服务, 客运服务费, 滴滴, 快车, 专车, 出租车
     [name |-> "DiDiDaCheFaPiao",
      keywords |-> <<<<"u5ba2", "u8fd0", "u670d", "u52a1">>,
          <<"u5ba2", "u8fd0", "u670d", "u52a1", "u8d39">>,
          <<"u6ef4", "u6ef4">>,
          <<"u5feb", "u8f66">>,
          <<"u4e13", "u8f66">>,
          <<"u51fa", "u79df", "u8f66">>>>],
     \* 顺丰发票: 收派服务, 收派服务费, 快递服务, 收派, 物流, 顺丰
     [name |-> "ShunFengFaPiao",
      keywords |-> <<<<"u6536", "u6d3e", "u670d", "u52a1">>,
          <<"u6536", "u6d3e", "u670d", "u52a1", "u8d39">>,
          <<"u5feb", "u9012", "u670d", "u52a1">>,
          <<"u6536", "u6d3e">>,
          <<"u7269", "u6d41">>,
          <<"u987a", "u4e30">>>>],
     \* 通行费电子发票: 通行费, 经营租赁, 高速公路, ETC, 停车费
     [name |-> "TongXingFeiDianZiFaPiao",
      keywords |-> <<<<"u901a", "u884c", "u8d39">>,
          <<"u7ecf", "u8425", "u79df", "u8d41">>,
          <<"u9ad8", "u901f", "u516c", "u8def">>,
          <<"E", "T", "C">>,
          <<"u505c", "u8f66", "u8d39">>>>],
     \* 餐饮发票: 餐饮, 饭店, 餐厅, 食品, 外卖
     [name |-> "CanYinFaPiao",
      keywords |-> <<<<"u9910", "u996e">>,
          <<"u996d", "u5e97">>,
          <<"u9910", "u5385">>,
          <<"u98df", "u54c1">>,
          <<"u5916", "u5356">>>>],
     \* 住宿发票: 住宿, 酒店, 宾馆, 旅馆
     [name |-> "ZhuSuFaPiao",
      keywords |-> <<<<"u4f4f", "u5bbf">>,
          <<"u9152", "u5e97">>,
          <<"u5bbe", "u9986">>,
          <<"u65c5", "u9986">>>>],
     \* 办公用品发票: 办公用品, 文具, 打印, 复印, 纸张
     [name |-> "BanGongYongPinFaPiao",
      keywords |-> <<<<"u529e", "u516c", "u7528", "u54c1">>,
          <<"u6587", "u5177">>,
          <<"u6253", "u5370">>,
          <<"u590d", "u5370">>,
          <<"u7eb8", "u5f20">>>>],
     \* 其他发票: (default, no keywords)
     [name |-> "QiTaFaPiao",
      keywords |-> <<>>]
  >>

CategoryNames == {categories[i].name : i \in 1..Len(categories)}

UpperLetters == <<"A", "B", "C", "D", "E", "F", "G", "H", "I", "J", "K", "L", "M",
                  "N", "O", "P", "Q", "R", "S", "T", "U", "V", "W", "X", "Y", "Z">>
LowerLetters == <<"a", "b", "c", "d", "e", "f", "g", "h", "i", "j", "k", "l", "m",
                  "n", "o", "p", "q", "r", "s", "t", "u", "v", "w", "x", "y", "z">>

\* str.lower() on one character
LowerChar(c) ==
  IF \E i \in 1..26 : UpperLetters[i] = c
  THEN LowerLetters[CHOOSE i \in 1..26 : UpperLetters[i] = c]
  ELSE c

\* str.lower()
lower(s) == [i \in 1..Len(s) |-> LowerChar(s[i])]

\* the Python test `sub in s` on strings
StrIn(sub, s) ==
  \E i \in 0..(Len(s) - Len(sub)) : SubSeq(s, i + 1, i + Len(sub)) = sub

\* contains_any comparing the keywords as written, without keyword.lower()
contains_any_CaseSensitive(content, keywords) ==
  \E k \in 1..Len(keywords) : StrIn(keywords[k], content)

\* contains_any(text, keywords)
contains_any(content, keywords) ==
  \E k \in 1..Len(keywords) : StrIn(lower(keywords[k]), content)

\* the loop with the first table entry, not 其他发票, as the value set before it
RECURSIVE ClassifyLoop_WrongDefault(_, _)
ClassifyLoop_WrongDefault(content, i) ==
  IF i > Len(categories) THEN categories[1].name
  ELSE IF categories[i].name = DefaultCategory THEN ClassifyLoop_WrongDefault(content, i + 1)
  ELSE IF contains_any(content, categories[i].keywords) THEN categories[i].name
  ELSE ClassifyLoop_WrongDefault(content, i + 1)

\* the loop `for cat_name, keywords in categories.items()` from entry i on,
\* with category = 其他发票 set before it
RECURSIVE ClassifyLoop(_, _)
ClassifyLoop(content, i) ==
  IF i > Len(categories) THEN DefaultCategory
  ELSE IF categories[i].name = DefaultCategory THEN ClassifyLoop(content, i + 1)
  ELSE IF contains_any(content, categories[i].keywords) THEN categories[i].name
  ELSE ClassifyLoop(content, i + 1)

\* the category classify_pdfs assigns to the text read from a PDF
classify_text(text) == ClassifyLoop(lower(text), 1)

(***************************************************************************)
(* The file system.  A path is a sequence of names relative to the working *)
(* directory; the file system maps every existing path to its node: 0 for  *)
(* a directory, n > 0 for the regular file with identity n.                *)
(***************************************************************************)
DirNode == 0

\* os.path.join(p, name)
join(p, name) == Append(p, name)

\* os.path.basename(p)
basename(p) == p[Len(p)]

\* os.path.exists(p); the working directory <<>> always exists
exists(f, p) == p = <<>> \/ p \in DOMAIN f

\* os.path.isdir(p)
isdir(f, p) == p = <<>> \/ (p \in DOMAIN f /\ f[p] = DirNode)

\* os.path.isfile(p)
isfile(f, p) == p \in DOMAIN f /\ f[p] # DirNode

\* q lies strictly below p
Below(p, q) == Len(q) > Len(p) /\ SubSeq(q, 1, Len(p)) = p

\* os.listdir(p), as the set of names it returns
listdir(f, p) ==
  {q[Len(p) + 1] : q \in {r \in DOMAIN f : Len(r) = Len(p) + 1 /\ Below(p, r)}}

\* the result of a file-system call: the new file system, or an OSError raised
\* (the file system is then unchanged)
Done(f) == [ok |-> TRUE, fs |-> f]
Raise(f) == [ok |-> FALSE, fs |-> f]

\* os.makedirs(p): creates p and every missing ancestor; raises when p exists
\* or an ancestor is a regular file
os_makedirs(f, p) ==
  LET chain == {SubSeq(p, 1, k) : k \in 1..Len(p)}
  IN  IF exists(f, p) \/ \E q \in chain : isfile(f, q)
      THEN Raise(f)
      ELSE Done([q \in DOMAIN f \cup chain |->
                   IF q \in DOMAIN f THEN f[q] ELSE DirNode])

\* os.rmdir(p): removes an empty directory, raises otherwise
os_rmdir(f, p) ==
  IF p \in DOMAIN f /\ f[p] = DirNode /\ listdir(f, p) = {}
  THEN Done([q \in DOMAIN f \ {p} |-> f[q]])
  ELSE Raise(f)

\* os.rename leaving the source in place, as a copy would
os_rename_Copies(f, src, dst) ==
  LET parent == SubSeq(dst, 1, Len(dst) - 1)
      moved  == {q \in DOMAIN f : q = src \/ Below(src, q)}
      to(q)  == dst \o SubSeq(q, Len(src) + 1, Len(q))
      from(r) == src \o SubSeq(r, Len(dst) + 1, Len(r))
      target == {to(q) : q \in moved}
  IN  IF src \notin DOMAIN f \/ ~isdir(f, parent) \/ isdir(f, dst)
      THEN Raise(f)
      ELSE Done([q \in DOMAIN f \cup target |->
                   IF q \in target THEN f[from(q)] ELSE f[q]])

\* os.rename(src, dst): a regular file replaces an existing regular file; a
\* directory moves with everything below it and replaces only an empty
\* directory
os_rename(f, src, dst) ==
  LET parent == SubSeq(dst, 1, Len(dst) - 1)
      moved  == {q \in DOMAIN f : q = src \/ Below(src, q)}
      gone   == moved \cup {dst}
      to(q)  == dst \o SubSeq(q, Len(src) + 1, Len(q))
      from(r) == src \o SubSeq(r, Len(dst) + 1, Len(r))
      target == {to(q) : q \in moved}
  IN  IF \/ src \notin DOMAIN f
         \/ dst = <<>>
         \/ ~isdir(f, parent)
         \/ src = dst
         \/ Below(src, dst)
         \/ (f[src] # DirNode /\ isdir(f, dst))
         \/ (f[src] = DirNode /\ isfile(f, dst))
         \/ (f[src] = DirNode /\ isdir(f, dst) /\ listdir(f, dst) # {})
      THEN Raise(f)
      ELSE Done([q \in (DOMAIN f \ gone) \cup target |->
                   IF q \in target THEN f[from(q)] ELSE f[q]])

\* shutil.move(src, dst): into dst when dst is a directory (raising when the
\* name is taken there), otherwise os.rename onto dst; where os.rename
\* refuses, the copy-and-delete fallback has the same outcome
shutil_move(f, src, dst) ==
  IF isdir(f, dst)
  THEN IF exists(f, join(dst, basename(src)))
       THEN Raise(f)
       ELSE os_rename(f, src, join(dst, basename(src)))
  ELSE os_rename(f, src, dst)

(***************************************************************************)
(* State.                                                                  *)
(***************************************************************************)
VARIABLES
  fs,           \* the file system
  content,      \* file identity -> what pdfplumber reads from it
  folder_path,  \* the source folder typed into the classification page
  pc,           \* where the classification run stands
  todo,         \* classify_pdfs: names of os.listdir(source_folder) still to visit
  temp_output,  \* the path classify_pdfs returned (<<>> before it returns)
  mtodo,        \* move_to_output: names of os.listdir(temp_output_folder) still to visit
  category,     \* move_to_output: the category whose files are being moved
  ftodo,        \* move_to_output: names of os.listdir(src) still to visit
  calls,        \* number of move_to_output calls made so far
  caught,       \* classify_pdfs: names whose iteration ended in the except branch
  fs0,          \* history: the file system when the run started
  fsStaged,     \* history: the file system when classify_pdfs returned
  fsMerge,      \* history: the file system when move_to_output was last called
  text,         \* classifier: the text handed to the classifier
  assigned,     \* classifier: the category assigned to it ("" before)
  pdf_path,     \* extractor: the path handed to extract_invoice_info
  document,     \* extractor: what pdfplumber finds at that path
  now,          \* extractor: what datetime.datetime.now() returns
  result,       \* extractor: the dict returned (<<>> before the call)
  raised,       \* extractor: the class of the exception the try body raised ("" if none)
  escaped,      \* extractor: an exception left extract_invoice_info
  migrators,    \* concurrent move_to_output calls: instance -> its local state
  file_name,    \* name resolver: the file name handed to extract_person_name
  person_name,  \* name resolver: the string returned (<<>> before the call)
  file_paths,          \* page: st.session_state.file_paths
  current_file_index,  \* page: st.session_state.current_file_index
  current_results,     \* page: st.session_state.current_results
  processing,          \* page: st.session_state.processing
  paused,              \* page: st.session_state.paused
  uploaded_files,      \* page: st.session_state.uploaded_files
  file_source,         \* page: st.session_state.file_source
  page_folder,         \* page: st.session_state.folder_path
  user_selected_options, \* page: st.session_state.user_selected_options
  uploader,            \* page: the files held by the st.file_uploader widget
  widgets,             \* page: the values of the option select boxes, by key
  listing,             \* what os.listdir gives for the folder typed in
  invoices,            \* database: the rows inserted into table invoices
  operation_logs,      \* database: the number of rows of table operation_logs
  page_pc,             \* page: where the script of the page stands
  batches,             \* page: batches started so far
  exported,            \* page: the sheet written by the last export
  basic_result         \* sink: the record on its way to _save_to_database

vars == <<fs, content, folder_path, pc, todo, temp_output, mtodo, category, ftodo,
          calls, caught, fs0, fsStaged, fsMerge, text, assigned, pdf_path, document,
          now, result, raised, escaped, migrators, file_name, person_name,
          file_paths, current_file_index, current_results, processing, paused,
          uploaded_files, file_source, page_folder, user_selected_options, uploader,
          widgets, listing, invoices, operation_logs, page_pc, batches, exported,
          basic_result>>

batchVars == <<fs, content, folder_path, pc, todo, temp_output, mtodo, category,
               ftodo, calls, caught, fs0, fsStaged, fsMerge>>

classifierVars == <<text, assigned>>

extractorVars == <<pdf_path, document, now, result, raised, escaped>>

raceVars == <<migrators>>

nameVars == <<file_name, person_name>>

pageVars == <<file_paths, current_file_index, current_results, processing, paused,
              uploaded_files, file_source, page_folder, user_selected_options, uploader,
              widgets, listing, invoices, operation_logs, page_pc, batches, exported,
              basic_result>>

\* the state of the parts of the program that stand alone
restVars == <<nameVars, pageVars>>

\* what a run of the page script leaves alone, the classification run apart
otherVars0 == <<classifierVars, extractorVars, raceVars, nameVars>>

\* what a classification run leaves alone
otherVars == <<classifierVars, extractorVars, raceVars, restVars>>

(***************************************************************************)
(* classification.py: classify_pdfs.                                       *)
(***************************************************************************)
\* the characters of the names a source folder of the model can list
NameChars ==
  ("a.pdf" :> <<"a", ".", "p", "d", "f">>) @@
  ("B.PDF" :> <<"B", ".", "P", "D", "F">>) @@
  ("c.Pdf" :> <<"c", ".", "P", "d", "f">>) @@
  ("notes.txt" :> <<"n", "o", "t", "e", "s", ".", "t", "x", "t">>) @@
  ("sub" :> <<"s", "u", "b">>) @@
  ("temp_output" :> <<"t", "e", "m", "p", "_", "o", "u", "t", "p", "u", "t">>)

\* str.endswith(suffix)
endswith(s, suffix) ==
  Len(s) >= Len(suffix) /\ SubSeq(s, Len(s) - Len(suffix) + 1, Len(s)) = suffix

\* filename.endswith('.pdf'), without filename.lower()
is_pdf_name_CaseSensitive(filename) == endswith(NameChars[filename], <<".", "p", "d", "f">>)

\* filename.lower().endswith('.pdf')
is_pdf_name(filename) == endswith(lower(NameChars[filename]), <<".", "p", "d", "f">>)

\* the folder emptied when it exists, created when it does not
ensure_dir_Recreate(f, p) ==
  IF exists(f, p)
  THEN Done([q \in {r \in DOMAIN f : ~Below(p, r)} |-> f[q]])
  ELSE os_makedirs(f, p)

\* `if not os.path.exists(p): os.makedirs(p)`
ensure_dir(f, p) == IF exists(f, p) THEN Done(f) ELSE os_makedirs(f, p)

\* the loop creating one subfolder per category, from entry i on
RECURSIVE make_category_folders(_, _, _)
make_category_folders(f, temp, i) ==
  IF i > Len(categories) THEN Done(f)
  ELSE LET r == ensure_dir(f, join(temp, categories[i].name))
       IN  IF r.ok THEN make_category_folders(r.fs, temp, i + 1) ELSE r

\* classify_pdfs up to its os.listdir: the staging root and its subfolders
classify_pdfs_setup(f, source_folder) ==
  LET temp == join(source_folder, "temp_output")
      r    == ensure_dir(f, temp)
  IN  IF r.ok THEN make_category_folders(r.fs, temp, 1) ELSE r

\* extract_text_from_pdf(pdf_path): [ok, text]; pdfplumber.open raises on a
\* missing path, a directory and an unreadable file; a page without a text
\* layer adds the empty string
extract_text_from_pdf(f, path) ==
  IF isfile(f, path) /\ content[f[path]].ok
  THEN [ok |-> TRUE, text |-> content[f[path]].text]
  ELSE [ok |-> FALSE, text |-> <<>>]

\* the button without the page's os.path.exists check
StartClassify_NoPathCheck ==
  /\ pc = "idle"
  /\ LET r == classify_pdfs_setup(fs, folder_path)
     IN  /\ fs' = r.fs
         /\ pc' = IF r.ok THEN "classify" ELSE "raised"
         /\ todo' = IF r.ok THEN listdir(r.fs, folder_path) ELSE {}
  /\ UNCHANGED <<content, folder_path, temp_output, mtodo, category, ftodo, calls,
                 caught, fs0, fsStaged, fsMerge, otherVars>>

\* the "开始分类" button: the page rejects a missing folder, otherwise
\* classify_pdfs starts and lists the source folder
StartClassify ==
  /\ pc = "idle"
  /\ IF ~exists(fs, folder_path)
     THEN /\ pc' = "rejected"
          /\ UNCHANGED <<fs, todo>>
     ELSE LET r == classify_pdfs_setup(fs, folder_path)
          IN  /\ fs' = r.fs
              /\ pc' = IF r.ok THEN "classify" ELSE "raised"
              /\ todo' = IF r.ok THEN listdir(r.fs, folder_path) ELSE {}
  /\ UNCHANGED <<content, folder_path, temp_output, mtodo, category, ftodo, calls,
                 caught, fs0, fsStaged, fsMerge, otherVars>>

\* the iteration with an exception ending the loop instead of the iteration
ClassifyOne_StopsOnError ==
  /\ pc = "classify"
  /\ \E filename \in todo, io \in BOOLEAN :
       LET filepath == join(folder_path, filename)
           read     == extract_text_from_pdf(fs, filepath)
           new_path == join(join(join(folder_path, "temp_output"),
                                 classify_text(read.text)), filename)
           r        == IF io THEN os_rename(fs, filepath, new_path) ELSE Raise(fs)
       IN  IF ~is_pdf_name(filename)
           THEN /\ io
                /\ todo' = todo \ {filename}
                /\ UNCHANGED <<fs, caught>>
           ELSE IF ~read.ok
           THEN /\ io
                /\ todo' = {}
                /\ caught' = caught \cup {filename}
                /\ UNCHANGED fs
           ELSE /\ fs' = r.fs
                /\ todo' = IF r.ok THEN todo \ {filename} ELSE {}
                /\ caught' = IF r.ok THEN caught ELSE caught \cup {filename}
  /\ UNCHANGED <<content, folder_path, pc, temp_output, mtodo, category, ftodo,
                 calls, fs0, fsStaged, fsMerge, otherVars>>

\* the iteration moving the file straight into the output tree
ClassifyOne_IntoOutput ==
  /\ pc = "classify"
  /\ \E filename \in todo, io \in BOOLEAN :
       LET filepath == join(folder_path, filename)
           read     == extract_text_from_pdf(fs, filepath)
           new_path == join(join(<<"output">>, classify_text(read.text)), filename)
           r        == IF io THEN os_rename(fs, filepath, new_path) ELSE Raise(fs)
       IN  /\ todo' = todo \ {filename}
           /\ IF ~is_pdf_name(filename)
              THEN /\ io
                   /\ UNCHANGED <<fs, caught>>
              ELSE IF ~read.ok
              THEN /\ io
                   /\ caught' = caught \cup {filename}
                   /\ UNCHANGED fs
              ELSE /\ fs' = r.fs
                   /\ caught' = IF r.ok THEN caught ELSE caught \cup {filename}
  /\ UNCHANGED <<content, folder_path, pc, temp_output, mtodo, category, ftodo,
                 calls, fs0, fsStaged, fsMerge, otherVars>>

\* one iteration of `for filename in os.listdir(source_folder)`; io is whether
\* the operating system carries out the rename
ClassifyOne ==
  /\ pc = "classify"
  /\ \E filename \in todo, io \in BOOLEAN :
       LET filepath == join(folder_path, filename)
           read     == extract_text_from_pdf(fs, filepath)
           new_path == join(join(join(folder_path, "temp_output"),
                                 classify_text(read.text)), filename)
           r        == IF io THEN os_rename(fs, filepath, new_path) ELSE Raise(fs)
       IN  /\ todo' = todo \ {filename}
           /\ IF ~is_pdf_name(filename)
              THEN /\ io
                   /\ UNCHANGED <<fs, caught>>
              ELSE IF ~read.ok
              THEN /\ io
                   /\ caught' = caught \cup {filename}
                   /\ UNCHANGED fs
              ELSE /\ fs' = r.fs
                   /\ caught' = IF r.ok THEN caught ELSE caught \cup {filename}
  /\ UNCHANGED <<content, folder_path, pc, temp_output, mtodo, category, ftodo,
                 calls, fs0, fsStaged, fsMerge, otherVars>>

\* `return temp_output`
ClassifyReturn ==
  /\ pc = "classify"
  /\ todo = {}
  /\ pc' = "classified"
  /\ temp_output' = join(folder_path, "temp_output")
  /\ fsStaged' = fs
  /\ UNCHANGED <<fs, content, folder_path, todo, mtodo, category, ftodo, calls,
                 caught, fs0, fsMerge, otherVars>>

\* the process stops after classify_pdfs has returned and before
\* move_to_output is called; the staged tree stays on disk
Interrupt ==
  /\ pc = "classified"
  /\ pc' = "stopped"
  /\ UNCHANGED <<fs, content, folder_path, todo, temp_output, mtodo, category,
                 ftodo, calls, caught, fs0, fsStaged, fsMerge, otherVars>>

(***************************************************************************)
(* classification.py: move_to_output.                                      *)
(***************************************************************************)
\* output_folder = "output", relative to the working directory
output_folder == <<"output">>

\* move_to_output(temp_output) is called: after classify_pdfs returned (at
\* once, or later when the run had stopped in between), or again on the same
\* path after an earlier call returned.  It creates output/ and lists the staging
\* root; os.listdir raises when the staging root is gone
MergeStart ==
  /\ pc \in {"classified", "stopped", "done"}
  /\ calls' = calls + 1
  /\ fsMerge' = fs
  /\ LET r == ensure_dir(fs, output_folder)
     IN  /\ fs' = r.fs
         /\ IF r.ok /\ isdir(r.fs, temp_output)
            THEN /\ pc' = "merge"
                 /\ mtodo' = listdir(r.fs, temp_output)
            ELSE /\ pc' = "raised"
                 /\ mtodo' = {}
  /\ UNCHANGED <<content, folder_path, todo, temp_output, category, ftodo, caught,
                 fs0, fsStaged, otherVars>>

\* the position of a name in the category table (past its end for any other)
CategoryRank(n) ==
  IF n \in CategoryNames
  THEN CHOOSE i \in 1..Len(categories) : categories[i].name = n
  ELSE Len(categories) + 1

\* the names of a listing that can come next
NextListed(S) ==
  {x \in S : Cardinality({y \in S : CategoryRank(y) < CategoryRank(x)}) < ListWindow}

\* one iteration of `for category in os.listdir(temp_output_folder)` up to the
\* inner loop: with dst present it lists src, otherwise it moves src as a
\* whole; io is whether the operating system carries out the move
MergeCategory ==
  /\ pc = "merge"
  /\ \E cat \in NextListed(mtodo), io \in BOOLEAN :
       LET src == join(temp_output, cat)
           dst == join(output_folder, cat)
           r   == IF io THEN shutil_move(fs, src, dst) ELSE Raise(fs)
       IN  IF exists(fs, dst)
           THEN /\ io
                /\ IF isdir(fs, src)
                   THEN /\ pc' = "merge_files"
                        /\ category' = cat
                        /\ ftodo' = listdir(fs, src)
                        /\ UNCHANGED mtodo
                   ELSE /\ pc' = "raised"
                        /\ UNCHANGED <<category, ftodo, mtodo>>
                /\ UNCHANGED fs
           ELSE /\ fs' = r.fs
                /\ pc' = IF r.ok THEN "merge" ELSE "raised"
                /\ mtodo' = IF r.ok THEN mtodo \ {cat} ELSE mtodo
                /\ UNCHANGED <<category, ftodo>>
  /\ UNCHANGED <<content, folder_path, todo, temp_output, calls, caught, fs0, fsStaged, fsMerge, otherVars>>

\* the iteration with the move wrapped in a try that swallows the error
MergeFile_SwallowsError ==
  /\ pc = "merge_files"
  /\ \E filename \in ftodo, io \in BOOLEAN :
       LET src_file == join(join(temp_output, category), filename)
           dst_file == join(join(output_folder, category), filename)
           r        == IF io THEN shutil_move(fs, src_file, dst_file) ELSE Raise(fs)
       IN  IF isfile(fs, src_file)
           THEN /\ fs' = r.fs
                /\ ftodo' = ftodo \ {filename}
                /\ UNCHANGED pc
           ELSE /\ io
                /\ ftodo' = ftodo \ {filename}
                /\ UNCHANGED <<fs, pc>>
  /\ UNCHANGED <<content, folder_path, todo, temp_output, mtodo, category, calls,
                 caught, fs0, fsStaged, fsMerge, otherVars>>

\* one iteration of `for filename in os.listdir(src)`
MergeFile ==
  /\ pc = "merge_files"
  /\ \E filename \in ftodo, io \in BOOLEAN :
       LET src_file == join(join(temp_output, category), filename)
           dst_file == join(join(output_folder, category), filename)
           r        == IF io THEN shutil_move(fs, src_file, dst_file) ELSE Raise(fs)
       IN  IF isfile(fs, src_file)
           THEN /\ fs' = r.fs
                /\ pc' = IF r.ok THEN "merge_files" ELSE "raised"
                /\ ftodo' = IF r.ok THEN ftodo \ {filename} ELSE ftodo
           ELSE /\ io
                /\ ftodo' = ftodo \ {filename}
                /\ UNCHANGED <<fs, pc>>
  /\ UNCHANGED <<content, folder_path, todo, temp_output, mtodo, category, calls,
                 caught, fs0, fsStaged, fsMerge, otherVars>>

\* `os.rmdir(src)` after the inner loop
MergeRmdir ==
  /\ pc = "merge_files"
  /\ ftodo = {}
  /\ LET r == os_rmdir(fs, join(temp_output, category))
     IN  /\ fs' = r.fs
         /\ pc' = IF r.ok THEN "merge" ELSE "raised"
         /\ mtodo' = IF r.ok THEN mtodo \ {category} ELSE mtodo
  /\ category' = ""
  /\ UNCHANGED <<content, folder_path, todo, temp_output, ftodo, calls, caught,
                 fs0, fsStaged, fsMerge, otherVars>>

\* `os.rmdir(temp_output_folder)` after the loop, then the function returns
MergeFinish ==
  /\ pc = "merge"
  /\ mtodo = {}
  /\ LET r == os_rmdir(fs, temp_output)
     IN  /\ fs' = r.fs
         /\ pc' = IF r.ok THEN "done" ELSE "raised"
  /\ UNCHANGED <<content, folder_path, todo, temp_output, mtodo, category, ftodo,
                 calls, caught, fs0, fsStaged, fsMerge, otherVars>>

(***************************************************************************)
(* Initial states of a classification run.                                 *)
(***************************************************************************)
\* an existing source folder, and a path that does not exist
SourceFolder == <<"invoices">>
MissingFolder == <<"nowhere">>
\* a path that exists and is a regular file
FileAsFolder == <<"invoices", "notes.txt">>

\* names the PDF files of the source folder take
PdfPool == <<"a.pdf", "B.PDF", "c.Pdf">>

\* 滴滴快车
DidiText == <<"u6ef4", "u6ef4", "u5feb", "u8f66">>
\* a PDF without a text layer
NoText == <<>>

Readable(t) == [ok |-> TRUE, text |-> t]
Unreadable == [ok |-> FALSE, text |-> <<>>]

\* what a PDF of the source folder can be: not there, or there with a content
PdfKinds == {"absent", "unreadable", "didi", "notext"}
KindContent(k) ==
  CASE k = "didi" -> Readable(DidiText)
    [] k = "notext" -> Readable(NoText)
    [] OTHER -> Unreadable

\* file identities: 1..MaxPdfs the PDFs of the source folder, then the others
NotesId == MaxPdfs + 1
SubPdfId == MaxPdfs + 2
OldOutputId == MaxPdfs + 3
OldStagedId == MaxPdfs + 4
FileIds == 1..(MaxPdfs + 4)

\* the file system holding the given <<path, node>> pairs
MkFs(pairs) ==
  [p \in {x[1] : x \in pairs} |-> (CHOOSE x \in pairs : x[1] = p)[2]]

\* the source folder: the PDFs chosen, a text file, and a subfolder with a PDF
SourceTree(kinds) ==
  {<<SourceFolder, DirNode>>,
   <<join(SourceFolder, "notes.txt"), NotesId>>,
   <<join(SourceFolder, "sub"), DirNode>>,
   <<join(join(SourceFolder, "sub"), "a.pdf"), SubPdfId>>}
  \cup {<<join(SourceFolder, PdfPool[i]), i>> : i \in {j \in 1..MaxPdfs : kinds[j] # "absent"}}

\* the output tree earlier runs left: none, or one category folder holding
\* nothing or one file
OutputTrees ==
  LET dst == join(output_folder, "DiDiDaCheFaPiao")
  IN  {{}, {<<output_folder, DirNode>>, <<dst, DirNode>>}}
      \cup {{<<output_folder, DirNode>>, <<dst, DirNode>>, <<join(dst, n), OldOutputId>>} :
              n \in {"a.pdf", "z.pdf"}}

\* the staged tree an earlier interrupted run left under the source folder:
\* none, or every category folder with one classified file
StagedTrees ==
  LET temp == join(SourceFolder, "temp_output")
      full == {<<temp, DirNode>>}
              \cup {<<join(temp, categories[i].name), DirNode>> : i \in 1..Len(categories)}
  IN  {{}, full \cup {<<join(join(temp, "DiDiDaCheFaPiao"), "a.pdf"), OldStagedId>>}}

InitBatch ==
  /\ \E kinds \in [1..MaxPdfs -> PdfKinds], out \in OutputTrees, staged \in StagedTrees :
       /\ fs = MkFs(SourceTree(kinds) \cup out \cup staged)
       /\ content = [i \in FileIds |->
                       IF i \in 1..MaxPdfs THEN KindContent(kinds[i])
                       ELSE Readable(DidiText)]
  /\ folder_path \in {SourceFolder, MissingFolder, FileAsFolder}
  /\ pc = "idle"
  /\ todo = {}
  /\ temp_output = <<>>
  /\ mtodo = {}
  /\ category = ""
  /\ ftodo = {}
  /\ calls = 0
  /\ caught = {}
  /\ fs0 = fs
  /\ fsStaged = fs
  /\ fsMerge = fs

IdleClassifier == text = <<>> /\ assigned = ""

IdleExtractor ==
  /\ pdf_path = <<>>
  /\ document = <<>>
  /\ now = 0
  /\ result = <<>>
  /\ raised = ""
  /\ escaped = FALSE

\* the batch is not running
IdleBatch ==
  /\ fs = <<>>
  /\ content = <<>>
  /\ folder_path = <<>>
  /\ pc = "off"
  /\ todo = {}
  /\ temp_output = <<>>
  /\ mtodo = {}
  /\ category = ""
  /\ ftodo = {}
  /\ calls = 0
  /\ caught = {}
  /\ fs0 = <<>>
  /\ fsStaged = <<>>
  /\ fsMerge = <<>>

\* no concurrent migrators
IdleRace == migrators = <<>>

IdleName == file_name = <<>> /\ person_name = <<>>

\* the extraction page is not open
IdlePage ==
  /\ file_paths = <<>>
  /\ current_file_index = 0
  /\ current_results = <<>>
  /\ processing = FALSE
  /\ paused = FALSE
  /\ uploaded_files = <<>>
  /\ file_source = ""
  /\ page_folder = <<>>
  /\ user_selected_options = <<>>
  /\ uploader = <<>>
  /\ widgets = <<>>
  /\ listing = <<>>
  /\ invoices = <<>>
  /\ operation_logs = 0
  /\ page_pc = "closed"
  /\ batches = 0
  /\ exported = <<>>
  /\ basic_result = <<>>

\* the parts that stand alone are not in use
IdleRest == IdleName /\ IdlePage

Init == InitBatch /\ IdleClassifier /\ IdleExtractor /\ IdleRace /\ IdleRest

Next ==
  \/ StartClassify
  \/ ClassifyOne
  \/ ClassifyReturn
  \/ Interrupt
  \/ MergeStart
  \/ MergeCategory
  \/ MergeFile
  \/ MergeRmdir
  \/ MergeFinish

Spec == Init /\ [][Next]_vars

(***************************************************************************)
(* Two move_to_output calls running at the same time, each on its own      *)
(* staged tree, against the one output folder.  Each call is cut where     *)
(* the operating system can schedule the other: between an os.path.exists  *)
(* and the call that acts on its answer, and between two moves.  The       *)
(* operating system refuses no call here.                                  *)
(***************************************************************************)
\* category folders a staged tree of a migrator holds
MaxStagedFolders == 2

Migrators == {1, 2}

\* the source folders of the two instances
MigratorFolder(i) == <<IF i = 1 THEN "invoicesA" ELSE "invoicesB">>

\* the categories of the staged trees, the most used first
RaceCategories == <<"DiDiDaCheFaPiao", "QiTaFaPiao", "DiTieFaPiao", "GaoTieFaPiao">>

\* the staged tree of instance i: its category folders, each with the file
\* a.pdf or empty as `filled` says
RaceStagedTree(i, filled) ==
  LET temp == join(MigratorFolder(i), "temp_output")
  IN  {<<MigratorFolder(i), DirNode>>, <<temp, DirNode>>}
      \cup {<<join(temp, RaceCategories[k]), DirNode>> : k \in 1..MaxStagedFolders}
      \cup {<<join(join(temp, RaceCategories[k]), "a.pdf"), MaxStagedFolders * i + k>> :
              k \in {j \in 1..MaxStagedFolders : filled[j]}}

\* the output folder before the two calls: missing, empty, or with the first
\* category folder
RaceOutputTrees ==
  {{}, {<<output_folder, DirNode>>},
   {<<output_folder, DirNode>>, <<join(output_folder, RaceCategories[1]), DirNode>>}}

\* the local state of a move_to_output call
Migrator(at, temp, listed, cat, files, seen, stale) ==
  [pc |-> at, temp_output |-> temp, mtodo |-> listed, category |-> cat,
   ftodo |-> files, seen |-> seen, stale |-> stale]

InitRace ==
  /\ \E filled \in [Migrators -> [1..MaxStagedFolders -> BOOLEAN]], out \in RaceOutputTrees :
       fs = MkFs(RaceStagedTree(1, filled[1]) \cup RaceStagedTree(2, filled[2]) \cup out)
  /\ migrators = [i \in Migrators |->
                    Migrator("start", join(MigratorFolder(i), "temp_output"), {}, "", {},
                             FALSE, FALSE)]
  /\ content = <<>>
  /\ folder_path = <<>>
  /\ pc = "off"
  /\ todo = {}
  /\ temp_output = <<>>
  /\ mtodo = {}
  /\ category = ""
  /\ ftodo = {}
  /\ calls = 0
  /\ caught = {}
  /\ fs0 = fs
  /\ fsStaged = <<>>
  /\ fsMerge = <<>>
  /\ IdleClassifier
  /\ IdleExtractor
  /\ IdleRest

\* what a step of a migrator leaves alone
raceFrame == <<content, folder_path, pc, todo, temp_output, mtodo, category, ftodo,
               calls, caught, fs0, fsStaged, fsMerge, classifierVars, extractorVars,
               restVars>>

\* `os.path.exists(output_folder)` of instance i
RaceCheckOutput(i) ==
  /\ pc = "off"
  /\ migrators[i].pc = "start"
  /\ migrators' = [migrators EXCEPT ![i].pc = "make_output",
                                    ![i].seen = exists(fs, output_folder)]
  /\ UNCHANGED <<fs, raceFrame>>

\* `os.makedirs(output_folder)` when the answer was no, then
\* `os.listdir(temp_output_folder)`
RaceMakeOutput(i) ==
  /\ pc = "off"
  /\ migrators[i].pc = "make_output"
  /\ LET m == migrators[i]
         r == IF m.seen THEN Done(fs) ELSE os_makedirs(fs, output_folder)
         stale == m.stale \/ (m.seen # exists(fs, output_folder))
     IN  /\ fs' = r.fs
         /\ migrators' = [migrators EXCEPT ![i] =
              IF r.ok /\ isdir(r.fs, m.temp_output)
              THEN Migrator("merge", m.temp_output, listdir(r.fs, m.temp_output), "", {},
                            m.seen, stale)
              ELSE Migrator("raised", m.temp_output, {}, "", {}, m.seen, stale)]
  /\ UNCHANGED raceFrame

\* the loop taking its next category without asking whether dst exists
RaceCheckCategory_NoCheck(i) ==
  /\ pc = "off"
  /\ migrators[i].pc = "merge"
  /\ \E cat \in NextListed(migrators[i].mtodo) :
       migrators' = [migrators EXCEPT ![i].pc = "move",
                                      ![i].category = cat,
                                      ![i].seen = FALSE]
  /\ UNCHANGED <<fs, raceFrame>>

\* the loop takes its next category: `os.path.exists(dst)`
RaceCheckCategory(i) ==
  /\ pc = "off"
  /\ migrators[i].pc = "merge"
  /\ \E cat \in NextListed(migrators[i].mtodo) :
       migrators' = [migrators EXCEPT ![i].pc = "move",
                                      ![i].category = cat,
                                      ![i].seen = exists(fs, join(output_folder, cat))]
  /\ UNCHANGED <<fs, raceFrame>>

\* the branch the answer chose: `os.listdir(src)` when dst was there,
\* `shutil.move(src, dst)` when it was not
RaceMove(i) ==
  /\ pc = "off"
  /\ migrators[i].pc = "move"
  /\ LET m     == migrators[i]
         src   == join(m.temp_output, m.category)
         dst   == join(output_folder, m.category)
         r     == IF m.seen THEN Done(fs) ELSE shutil_move(fs, src, dst)
         stale == m.stale \/ (m.seen # exists(fs, dst))
     IN  /\ fs' = r.fs
         /\ migrators' = [migrators EXCEPT ![i] =
              IF ~r.ok \/ (m.seen /\ ~isdir(fs, src))
              THEN Migrator("raised", m.temp_output, m.mtodo, m.category, {}, m.seen, stale)
              ELSE IF m.seen
              THEN Migrator("merge_files", m.temp_output, m.mtodo, m.category,
                            listdir(fs, src), m.seen, stale)
              ELSE Migrator("merge", m.temp_output, m.mtodo \ {m.category}, "", {},
                            m.seen, stale)]
  /\ UNCHANGED raceFrame

\* one iteration of `for filename in os.listdir(src)` of instance i
RaceMoveFile(i) ==
  /\ pc = "off"
  /\ migrators[i].pc = "merge_files"
  /\ \E filename \in migrators[i].ftodo :
       LET m        == migrators[i]
           src_file == join(join(m.temp_output, m.category), filename)
           dst_file == join(join(output_folder, m.category), filename)
           r        == IF isfile(fs, src_file) THEN shutil_move(fs, src_file, dst_file)
                       ELSE Done(fs)
       IN  /\ fs' = r.fs
           /\ migrators' = [migrators EXCEPT
                ![i].pc = IF r.ok THEN "merge_files" ELSE "raised",
                ![i].ftodo = IF r.ok THEN m.ftodo \ {filename} ELSE m.ftodo]
  /\ UNCHANGED raceFrame

\* `os.rmdir(src)` of instance i
RaceRmdir(i) ==
  /\ pc = "off"
  /\ migrators[i].pc = "merge_files"
  /\ migrators[i].ftodo = {}
  /\ LET m == migrators[i]
         r == os_rmdir(fs, join(m.temp_output, m.category))
     IN  /\ fs' = r.fs
         /\ migrators' = [migrators EXCEPT
              ![i].pc = IF r.ok THEN "merge" ELSE "raised",
              ![i].mtodo = IF r.ok THEN m.mtodo \ {m.category} ELSE m.mtodo,
              ![i].category = ""]
  /\ UNCHANGED raceFrame

\* `os.rmdir(temp_output_folder)` of instance i, then the call returns
RaceFinish(i) ==
  /\ pc = "off"
  /\ migrators[i].pc = "merge"
  /\ migrators[i].mtodo = {}
  /\ LET r == os_rmdir(fs, migrators[i].temp_output)
     IN  /\ fs' = r.fs
         /\ migrators' = [migrators EXCEPT ![i].pc = IF r.ok THEN "done" ELSE "raised"]
  /\ UNCHANGED raceFrame

NextRace ==
  \E i \in Migrators :
    \/ RaceCheckOutput(i)
    \/ RaceMakeOutput(i)
    \/ RaceCheckCategory(i)
    \/ RaceMove(i)
    \/ RaceMoveFile(i)
    \/ RaceRmdir(i)
    \/ RaceFinish(i)

SpecRace == InitRace /\ [][NextRace]_vars

(***************************************************************************)
(* backend.py: InvoiceExtractor.  Regular expressions are matched as       *)
(* re.search matches them: at the leftmost start, each quantifier greedy.  *)
(* Amounts are floats with two decimals, held as a whole number of cents.  *)
(***************************************************************************)
\* \s
IsSpace(c) == c \in {" ", "\t", "\n", "\r", "u3000"}

Digits == <<"0", "1", "2", "3", "4", "5", "6", "7", "8", "9">>
\* the full-width digits, which \d matches as well
WideDigits == <<"uff10", "uff11", "uff12", "uff13", "uff14", "uff15", "uff16", "uff17",
                "uff18", "uff19">>

\* \d
IsDigit(c) == \E i \in 1..10 : Digits[i] = c \/ WideDigits[i] = c

\* the value of a digit
DigitValue(c) == (CHOOSE i \in 1..10 : Digits[i] = c \/ WideDigits[i] = c) - 1

\* [:：]
IsColon(c) == c \in {":", "uff1a"}

\* [￥¥]
IsYuan(c) == c \in {"uffe5", "u00a5"}

\* the character at position i, "" past the end
At(t, i) == IF i >= 1 /\ i <= Len(t) THEN t[i] ELSE ""

\* the position after the longest run of \s from i (\s*)
RECURSIVE SkipSpaces(_, _)
SkipSpaces(t, i) == IF IsSpace(At(t, i)) THEN SkipSpaces(t, i + 1) ELSE i

\* the position after the longest run of \d from i (\d+ when the run is not empty)
RECURSIVE SkipDigits(_, _)
SkipDigits(t, i) == IF IsDigit(At(t, i)) THEN SkipDigits(t, i + 1) ELSE i

\* the literal lit stands at position i
LiteralAt(t, i, lit) ==
  i + Len(lit) - 1 <= Len(t) /\ SubSeq(t, i, i + Len(lit) - 1) = lit

\* 发票代码, 发票号码, 开票日期, 年, 月, 日
CodeLabel == <<"u53d1", "u7968", "u4ee3", "u7801">>
NumberLabel == <<"u53d1", "u7968", "u53f7", "u7801">>
DateLabel == <<"u5f00", "u7968", "u65e5", "u671f">>
YearChar == "u5e74"
MonthChar == "u6708"
DayChar == "u65e5"

\* a match is the sequence of its groups; no match is <<>>
NoMatch == <<>>

\* label\s*[:：]\s*(\d+) matched at position i
LabelDigitsAt(t, i, label) ==
  LET colon == SkipSpaces(t, i + Len(label))
      first == SkipSpaces(t, colon + 1)
      last  == SkipDigits(t, first)
  IN  IF LiteralAt(t, i, label) /\ IsColon(At(t, colon)) /\ last > first
      THEN <<SubSeq(t, first, last - 1)>>
      ELSE NoMatch

\* the search with (\d+?) for the group: the first digit alone
SearchLabelDigits_FirstDigit(t, label) ==
  LET starts == {i \in 1..Len(t) : LabelDigitsAt(t, i, label) # NoMatch}
  IN  IF starts = {} THEN NoMatch
      ELSE <<SubSeq(LabelDigitsAt(t, CHOOSE i \in starts : \A j \in starts : i <= j,
                                  label)[1], 1, 1)>>

\* re.search(r'label\s*[:：]\s*(\d+)', text)
SearchLabelDigits(t, label) ==
  LET starts == {i \in 1..Len(t) : LabelDigitsAt(t, i, label) # NoMatch}
  IN  IF starts = {} THEN NoMatch
      ELSE LabelDigitsAt(t, CHOOSE i \in starts : \A j \in starts : i <= j, label)

\* \s* in the spaced date pattern, nothing in the compact one
DateGap(t, i, spaced) == IF spaced THEN SkipSpaces(t, i) ELSE i

\* (\d{1,2}) and what follows it up to the character mark, from position i:
\* two digits are tried first, then one; the result is <<group, next position>>
ShortNumberThen(t, i, mark, spaced) ==
  LET fits(k) == /\ \A j \in 0..(k - 1) : IsDigit(At(t, i + j))
                 /\ At(t, DateGap(t, i + k, spaced)) = mark
  IN  IF fits(2) THEN <<SubSeq(t, i, i + 1), DateGap(t, i + 2, spaced) + 1>>
      ELSE IF fits(1) THEN <<SubSeq(t, i, i), DateGap(t, i + 1, spaced) + 1>>
      ELSE NoMatch

\* a date pattern matched at position i:
\* 开票日期\s*[:：]\s*(\d{4})\s*年\s*(\d{1,2})\s*月\s*(\d{1,2})\s*日 when spaced,
\* 开票日期\s*[:：]\s*(\d{4})年(\d{1,2})月(\d{1,2})日 otherwise
DateAt(t, i, spaced) ==
  LET colon == SkipSpaces(t, i + Len(DateLabel))
      year  == SkipSpaces(t, colon + 1)
      ymark == DateGap(t, year + 4, spaced)
      month == ShortNumberThen(t, DateGap(t, ymark + 1, spaced), MonthChar, spaced)
      day   == IF month = NoMatch THEN NoMatch
               ELSE ShortNumberThen(t, DateGap(t, month[2], spaced), DayChar, spaced)
  IN  IF /\ LiteralAt(t, i, DateLabel)
         /\ IsColon(At(t, colon))
         /\ \A j \in 0..3 : IsDigit(At(t, year + j))
         /\ At(t, ymark) = YearChar
         /\ month # NoMatch
         /\ day # NoMatch
      THEN <<SubSeq(t, year, year + 3), month[1], day[1]>>
      ELSE NoMatch

\* re.search(pattern, text) for a date pattern
SearchDate(t, spaced) ==
  LET starts == {i \in 1..Len(t) : DateAt(t, i, spaced) # NoMatch}
  IN  IF starts = {} THEN NoMatch
      ELSE DateAt(t, CHOOSE i \in starts : \A j \in starts : i <= j, spaced)

\* _init_date_patterns: the spaced pattern, then the compact one
date_patterns == <<TRUE, FALSE>>

\* str.zfill(2)
zfill2(d) == IF Len(d) < 2 THEN <<"0">> \o d ELSE d

\* the loop trying the compact pattern before the spaced one
RECURSIVE DateLoop_CompactFirst(_, _)
DateLoop_CompactFirst(t, k) ==
  IF k > Len(date_patterns) THEN <<>>
  ELSE LET m == SearchDate(t, ~date_patterns[k])
       IN  IF m # NoMatch
           THEN m[1] \o <<"/">> \o zfill2(m[2]) \o <<"/">> \o zfill2(m[3])
           ELSE DateLoop_CompactFirst(t, k + 1)

\* the loop over date_patterns from pattern k on, with its else branch
RECURSIVE DateLoop(_, _)
DateLoop(t, k) ==
  IF k > Len(date_patterns) THEN <<>>
  ELSE LET m == SearchDate(t, date_patterns[k])
       IN  IF m # NoMatch
           THEN m[1] \o <<"/">> \o zfill2(m[2]) \o <<"/">> \o zfill2(m[3])
           ELSE DateLoop(t, k + 1)

\* (\d+\.\d{2}) matched at position i: <<group, next position>>
DecimalAt(t, i) ==
  LET dot == SkipDigits(t, i)
  IN  IF dot > i /\ At(t, dot) = "." /\ IsDigit(At(t, dot + 1)) /\ IsDigit(At(t, dot + 2))
      THEN <<SubSeq(t, i, dot + 2), dot + 3>>
      ELSE NoMatch

\* (\d+\.\d{2})\s+(\d+)%\s+(\d+\.\d{2}) matched at position i: groups 1 and 3
TableRowAt(t, i) ==
  LET amount  == DecimalAt(t, i)
      rate    == IF amount = NoMatch THEN 0 ELSE SkipSpaces(t, amount[2])
      percent == SkipDigits(t, rate)
      tax     == SkipSpaces(t, percent + 1)
      third   == DecimalAt(t, tax)
  IN  IF /\ amount # NoMatch
         /\ rate > amount[2]
         /\ percent > rate
         /\ At(t, percent) = "%"
         /\ tax > percent + 1
         /\ third # NoMatch
      THEN <<amount[1], third[1]>>
      ELSE NoMatch

\* re.search of the table pattern
SearchTableRow(t) ==
  LET starts == {i \in 1..Len(t) : TableRowAt(t, i) # NoMatch}
  IN  IF starts = {} THEN NoMatch
      ELSE TableRowAt(t, CHOOSE i \in starts : \A j \in starts : i <= j)

\* re.findall(r'[￥¥]\s*(\d+\.\d{2})', text) from position i on
RECURSIVE FindYuan(_, _)
FindYuan(t, i) ==
  IF i > Len(t) THEN <<>>
  ELSE LET m == IF IsYuan(t[i]) THEN DecimalAt(t, SkipSpaces(t, i + 1)) ELSE NoMatch
       IN  IF m = NoMatch THEN FindYuan(t, i + 1)
           ELSE <<m[1]>> \o FindYuan(t, m[2])

\* the whole number its digits write
RECURSIVE DigitsValue(_)
DigitsValue(d) ==
  IF d = <<>> THEN 0
  ELSE 10 * DigitsValue(SubSeq(d, 1, Len(d) - 1)) + DigitValue(d[Len(d)])

\* float(group) for a group \d+\.\d{2}, in cents
float(g) ==
  100 * DigitsValue(SubSeq(g, 1, Len(g) - 3)) + DigitsValue(SubSeq(g, Len(g) - 1, Len(g)))

\* None, for an amount
None == -1

\* the currency-marked numbers taken first, the table row second
extract_amounts_YuanFirst(t) ==
  LET table_match  == SearchTableRow(t)
      yuan_matches == FindYuan(t, 1)
  IN  IF Len(yuan_matches) >= 2 THEN <<float(yuan_matches[1]), float(yuan_matches[2])>>
      ELSE IF table_match # NoMatch THEN <<float(table_match[1]), float(table_match[2])>>
      ELSE <<None, None>>

\* the currency strategy giving the one number it found as the amount
extract_amounts_SingleNumber(t) ==
  LET table_match  == SearchTableRow(t)
      yuan_matches == FindYuan(t, 1)
  IN  IF table_match # NoMatch THEN <<float(table_match[1]), float(table_match[2])>>
      ELSE IF Len(yuan_matches) >= 2 THEN <<float(yuan_matches[1]), float(yuan_matches[2])>>
      ELSE IF Len(yuan_matches) = 1 THEN <<float(yuan_matches[1]), None>>
      ELSE <<None, None>>

\* _extract_amounts(text): <<amount, tax>>, each a float or None
extract_amounts(t) ==
  LET table_match  == SearchTableRow(t)
      yuan_matches == FindYuan(t, 1)
  IN  IF table_match # NoMatch THEN <<float(table_match[1]), float(table_match[2])>>
      ELSE IF Len(yuan_matches) >= 2 THEN <<float(yuan_matches[1]), float(yuan_matches[2])>>
      ELSE <<None, None>>

\* `x if x else 0.0`: None and 0.0 are false
OrZero(x) == IF x = None \/ x = 0 THEN 0 ELSE x

\* the decimal digits of a natural number
RECURSIVE IntToStr(_)
IntToStr(n) ==
  IF n < 10 THEN <<Digits[n + 1]>> ELSE IntToStr(n \div 10) \o <<Digits[(n % 10) + 1]>>

\* the whole numbers n / d can round to: the nearest one; when n / d lies
\* halfway between two, the rounding error of the float quotient decides
\* which of the two the format prints
RoundQuotient(n, d) ==
  LET q == n \div d
      r == n % d
  IN  IF 2 * r < d THEN {q}
      ELSE IF 2 * r > d THEN {q + 1}
      ELSE {q, q + 1}

\* the rate cut to a whole number, not rounded
tax_rates_Truncated(amount, tax) ==
  IF amount > 0 THEN {IntToStr((100 * tax) \div amount) \o <<"%">>}
  ELSE {<<"0", "%">>}

\* f"{(tax / amount) * 100:.0f}%" when amount > 0, "0%" otherwise: the
\* strings it can give
tax_rates(amount, tax) ==
  IF amount > 0 THEN {IntToStr(n) \o <<"%">> : n \in RoundQuotient(100 * tax, amount)}
  ELSE {<<"0", "%">>}

\* os.path.basename(path): what follows the last separator
RECURSIVE os_path_basename(_)
os_path_basename(path) ==
  IF path = <<>> \/ path[Len(path)] = "/" THEN <<>>
  ELSE os_path_basename(SubSeq(path, 1, Len(path) - 1)) \o <<path[Len(path)]>>

\* a number written with at least two digits (%m, %d, %H, %M, %S)
TwoDigits(n) == zfill2(IntToStr(n))

\* datetime.strftime('%Y/%m/%d %H:%M:%S')
strftime(t) ==
  IntToStr(t.year) \o <<"/">> \o TwoDigits(t.month) \o <<"/">> \o TwoDigits(t.day)
    \o <<" ">> \o TwoDigits(t.hour) \o <<":">> \o TwoDigits(t.minute)
    \o <<":">> \o TwoDigits(t.second)

\* 成功
SuccessStatus == <<"u6210", "u529f">>

\* 失败 and ": ", what the status of a failure starts with
FailureMarker == <<"u5931", "u8d25", ":", " ">>

\* the exception classes of the model that derive from Exception
ExceptionClasses ==
  {"FileNotFoundError", "PDFSyntaxError", "IndexError", "TypeError", "ValueError",
   "AttributeError"}

\* what re.search says of a text that is None, by Python version
NoneTextMessages ==
  {<<"expected string or bytes-like object">>,
   <<"expected string or bytes-like object, got 'NoneType'">>}

\* no exception
NoException == ""

\* the try body with code_match.group(1) not guarded by `if code_match`
TryBodyRaises_MissRaises(doc) ==
  IF doc.open # NoException THEN {[type |-> doc.open, message |-> doc.message]}
  ELSE IF doc.pages = <<>>
       THEN {[type |-> "IndexError", message |-> <<"list index out of range">>]}
  ELSE IF doc.pages[1].extract_text = "raises"
       THEN {[type |-> "ValueError", message |-> doc.pages[1].text]}
  ELSE IF doc.pages[1].extract_text = "None"
       THEN {[type |-> "TypeError", message |-> m] : m \in NoneTextMessages}
  ELSE IF SearchLabelDigits(doc.pages[1].text, CodeLabel) = NoMatch
       THEN {[type |-> "AttributeError",
              message |-> <<"'NoneType' object has no attribute 'group'">>]}
  ELSE {}

\* the exceptions lines 338-339 can raise on a document: pdfplumber.open,
\* pdf.pages[0], extract_text(), and re.search on what extract_text returned
TryBodyRaises(doc) ==
  IF doc.open # NoException THEN {[type |-> doc.open, message |-> doc.message]}
  ELSE IF doc.pages = <<>>
       THEN {[type |-> "IndexError", message |-> <<"list index out of range">>]}
  ELSE IF doc.pages[1].extract_text = "raises"
       THEN {[type |-> "ValueError", message |-> doc.pages[1].text]}
  ELSE IF doc.pages[1].extract_text = "None"
       THEN {[type |-> "TypeError", message |-> m] : m \in NoneTextMessages}
  ELSE {}

\* 价税合计 taken to be the amount alone
gross_total_AmountOnly(amount, tax) == amount

\* result['价税合计'] = result['金额'] + result['税额']
gross_total(amount, tax) == amount + tax

\* lines 341-379: the records a text that was read can give
SuccessRecords(t, path, time) ==
  LET code_match == SearchLabelDigits(t, CodeLabel)
      no_match   == SearchLabelDigits(t, NumberLabel)
      amounts    == extract_amounts(t)
      jine       == OrZero(amounts[1])
      shuie      == OrZero(amounts[2])
  IN  {[FaPiaoDaiMa |-> IF code_match # NoMatch THEN code_match[1] ELSE <<>>,
        FaPiaoHaoMa |-> IF no_match # NoMatch THEN no_match[1] ELSE <<>>,
        KaiPiaoRiQi |-> DateLoop(t, 1),
        JinE        |-> jine,
        ShuiE       |-> shuie,
        JiaShuiHeJi |-> gross_total(jine, shuie),
        ShuiLv      |-> rate,
        WenJianMing |-> os_path_basename(path),
        TiQuShiJian |-> strftime(time),
        ZhuangTai   |-> SuccessStatus] : rate \in tax_rates(jine, shuie)}

\* lines 382-386: the record of a failure
FailureRecord(e, path, time) ==
  [WenJianMing |-> os_path_basename(path),
   TiQuShiJian |-> strftime(time),
   ZhuangTai   |-> FailureMarker \o e.message]

\* a handler that catches the errors of the operating system only
Handles_OnlyOSError(type) == type \in {"FileNotFoundError"}

\* line 381: except Exception
Handles(type) == type \in ExceptionClasses

\* extract_invoice_info(pdf_path), once
ExtractInvoiceInfo ==
  /\ pc = "off"
  /\ DOMAIN result = {}
  /\ ~escaped
  /\ \/ /\ TryBodyRaises(document) = {}
        /\ result' \in SuccessRecords(document.pages[1].text, pdf_path, now)
        /\ UNCHANGED <<raised, escaped>>
     \/ \E e \in TryBodyRaises(document) :
          /\ raised' = e.type
          /\ IF Handles(e.type)
             THEN result' = FailureRecord(e, pdf_path, now) /\ UNCHANGED escaped
             ELSE escaped' = TRUE /\ UNCHANGED result
  /\ UNCHANGED <<batchVars, classifierVars, raceVars, restVars, pdf_path, document, now>>

(***************************************************************************)
(* The extractor alone: one call on every path, clock and document of the  *)
(* sets below; a text is made of at most MaxFields pieces.                 *)
(***************************************************************************)
MaxFields == 2

\* the pieces of a text, one after the other
RECURSIVE Concat(_)
Concat(pieces) ==
  IF pieces = <<>> THEN <<>> ELSE Head(pieces) \o Concat(Tail(pieces))

ExtractPaths ==
  {<<"a.pdf">>, <<"tmp", "/", "b.pdf">>, <<"/", "tmp", "/", "sub", "/", "c.pdf">>,
   <<"tmp", "/">>, <<>>}

Clock ==
  {[year |-> 2024, month |-> 3, day |-> 5, hour |-> 9, minute |-> 7, second |-> 0],
   [year |-> 2025, month |-> 12, day |-> 31, hour |-> 23, minute |-> 59, second |-> 58]}

\* 开票日期 with a date after it, compact or with spaces around the numbers
DatePiece(spaced, y, m, d) ==
  IF spaced
  THEN DateLabel \o <<":", " ">> \o y \o <<" ", YearChar, " ">> \o m \o <<" ", MonthChar>>
         \o d \o <<" ", DayChar>>
  ELSE DateLabel \o <<"uff1a">> \o y \o <<YearChar>> \o m \o <<MonthChar>> \o d \o <<DayChar>>

\* the dates of the texts: <<year, month, day>> as written
Dates == {<<<<"2", "0", "2", "4">>, <<"3">>, <<"5">>>>,
          <<<<"2", "0", "2", "4">>, <<"1", "2">>, <<"2", "5">>>>}

\* a table row: amount, printed percent, tax
RowPiece(percent) ==
  <<"1", "0", "0", ".", "0", "0", " ">> \o percent \o <<"%", " ", "6", ".", "0", "0">>

FieldPieces ==
  {CodeLabel \o <<"uff1a", "1", "2">>,
   NumberLabel \o <<" ", ":", " ", "3", "4", "x">>,
   RowPiece(<<"6">>),
   RowPiece(<<"1", "3">>),
   <<"u00a5", "1", "0", "0", ".", "0", "0">>,
   <<"uffe5", " ", "7", ".", "0", "0">>,
   <<"u00a5", "1", "0", "0", ".", "0", "0", " ", "u00a5", "0", ".", "5", "0", " ">>,
   <<" ">>,
   <<"0">>,
   CodeLabel \o <<" ", ":", " ">>,
   <<"uff13">>}
  \cup {DatePiece(spaced, ymd[1], ymd[2], ymd[3]) : spaced \in BOOLEAN, ymd \in Dates}

ExtractTexts == UNION {{Concat(q) : q \in [1..n -> FieldPieces]} : n \in 0..MaxFields}

TextPage(t) == [extract_text |-> "text", text |-> t]
NonePage == [extract_text |-> "None", text |-> <<>>]
BrokenPage == [extract_text |-> "raises", text |-> <<"bad page">>]

Opened(pages) == [open |-> NoException, message |-> <<>>, pages |-> pages]

Documents ==
  {[open |-> "FileNotFoundError", message |-> <<"No such file or directory">>,
    pages |-> <<>>],
   [open |-> "PDFSyntaxError", message |-> <<"No /Root object!">>, pages |-> <<>>],
   Opened(<<>>),
   Opened(<<NonePage>>),
   Opened(<<BrokenPage>>),
   Opened(<<NonePage, TextPage(<<"0">>)>>)}
  \cup {Opened(<<TextPage(t)>>) : t \in ExtractTexts}

InitExtract ==
  /\ IdleBatch
  /\ IdleClassifier
  /\ IdleRace
  /\ IdleRest
  /\ pdf_path \in ExtractPaths
  /\ document \in Documents
  /\ now \in Clock
  /\ result = <<>>
  /\ raised = NoException
  /\ escaped = FALSE

NextExtract == ExtractInvoiceInfo

SpecExtract == InitExtract /\ [][NextExtract]_vars

(***************************************************************************)
(* backend.py: InvoiceExtractor.extract_person_name.  A file name is the   *)
(* sequence of its characters.                                             *)
(***************************************************************************)
\* the characters of the model that [\u4e00-\u9fa5] matches:
\* 滴 电 子 发 票 张 三 王 小 明 李 未 知
Ideographs ==
  {"u6ef4", "u7535", "u5b50", "u53d1", "u7968", "u5f20", "u4e09", "u738b", "u5c0f",
   "u660e", "u674e", "u672a", "u77e5"}

\* [\u4e00-\u9fa5]
IsIdeograph(c) == c \in Ideographs

\* 滴滴电子发票
ProviderPrefix == <<"u6ef4", "u6ef4", "u7535", "u5b50", "u53d1", "u7968">>

\* .pdf
DotPdf == <<".", "p", "d", "f">>

\* 未知
UnknownName == <<"u672a", "u77e5">>

\* [_-]
IsSeparator(c) == c \in {"_", "-"}

\* $ at position i: past the last character, or at a newline that is the last
AtEnd(s, i) == i = Len(s) + 1 \/ (i = Len(s) /\ s[i] = "\n")

\* ([\u4e00-\u9fa5]{2,4})\.pdf$ matched at position i, the group taking the
\* first two ideographs only
IdeographsThenPdfAt_TwoOnly(s, i) ==
  LET fits(k) == /\ \A j \in 0..(k - 1) : IsIdeograph(At(s, i + j))
                 /\ LiteralAt(s, i + k, DotPdf)
                 /\ AtEnd(s, i + k + Len(DotPdf))
      some == {k \in 2..4 : fits(k)}
  IN  IF some = {} THEN NoMatch
      ELSE <<SubSeq(s, i, i + 1)>>

\* ([\u4e00-\u9fa5]{2,4})\.pdf$ matched at position i: four ideographs are
\* tried first, then three, then two
IdeographsThenPdfAt(s, i) ==
  LET fits(k) == /\ \A j \in 0..(k - 1) : IsIdeograph(At(s, i + j))
                 /\ LiteralAt(s, i + k, DotPdf)
                 /\ AtEnd(s, i + k + Len(DotPdf))
      some == {k \in 2..4 : fits(k)}
  IN  IF some = {} THEN NoMatch
      ELSE <<SubSeq(s, i, i + (CHOOSE k \in some : \A l \in some : l <= k) - 1)>>

\* 滴滴电子发票\d+[_-]\d+[_-]([\u4e00-\u9fa5]{2,4})\.pdf$ matched at position i
ProviderNameAt(s, i) ==
  LET first  == i + Len(ProviderPrefix)
      sep1   == SkipDigits(s, first)
      sep2   == SkipDigits(s, sep1 + 1)
  IN  IF /\ LiteralAt(s, i, ProviderPrefix)
         /\ sep1 > first
         /\ IsSeparator(At(s, sep1))
         /\ sep2 > sep1 + 1
         /\ IsSeparator(At(s, sep2))
      THEN IdeographsThenPdfAt(s, sep2 + 1)
      ELSE NoMatch

\* _init_name_patterns: the provider pattern, then the direct one
name_patterns == <<"provider", "direct">>

\* a name pattern matched at position i
NamePatternAt(s, i, pattern) ==
  IF pattern = "provider" THEN ProviderNameAt(s, i) ELSE IdeographsThenPdfAt(s, i)

\* re.search(pattern, filename) for a name pattern
SearchName(s, pattern) ==
  LET starts == {i \in 1..Len(s) : NamePatternAt(s, i, pattern) # NoMatch}
  IN  IF starts = {} THEN NoMatch
      ELSE NamePatternAt(s, CHOOSE i \in starts : \A j \in starts : i <= j, pattern)

\* filename.replace('.pdf', '') from position i on: every occurrence goes
RECURSIVE replace_dot_pdf(_, _)
replace_dot_pdf(s, i) ==
  IF i > Len(s) THEN <<>>
  ELSE IF LiteralAt(s, i, DotPdf) THEN replace_dot_pdf(s, i + Len(DotPdf))
  ELSE <<s[i]>> \o replace_dot_pdf(s, i + 1)

\* the position after at most four ideographs from i
IdeographRunEnd(s, i) ==
  CHOOSE e \in i..(i + 4) :
    /\ \A j \in i..(e - 1) : IsIdeograph(At(s, j))
    /\ e = i + 4 \/ ~IsIdeograph(At(s, e))

\* re.findall(r'[\u4e00-\u9fa5]{2,4}', s) from position i on
RECURSIVE FindNames(_, _)
FindNames(s, i) ==
  IF i > Len(s) THEN <<>>
  ELSE LET e == IdeographRunEnd(s, i)
       IN  IF e >= i + 2 THEN <<SubSeq(s, i, e - 1)>> \o FindNames(s, e)
           ELSE FindNames(s, i + 1)

\* max(names, key=len): the first of the longest
max_by_len(names) ==
  names[CHOOSE i \in 1..Len(names) :
          /\ \A j \in 1..Len(names) : Len(names[j]) <= Len(names[i])
          /\ \A j \in 1..(i - 1) : Len(names[j]) < Len(names[i])]

\* lines 410-415: the fallback
fallback_name(s) ==
  LET name_without_ext == replace_dot_pdf(s, 1)
      chinese_names    == FindNames(name_without_ext, 1)
  IN  IF chinese_names # <<>> THEN max_by_len(chinese_names) ELSE UnknownName

\* lines 403-408: the loop over name_patterns from pattern k on
RECURSIVE NameLoop(_, _)
NameLoop(s, k) ==
  IF k > Len(name_patterns) THEN fallback_name(s)
  ELSE LET match == SearchName(s, name_patterns[k])
       IN  IF match # NoMatch /\ 2 <= Len(match[1]) /\ Len(match[1]) <= 4
           THEN match[1]
           ELSE NameLoop(s, k + 1)

\* extract_person_name(filename)
extract_person_name(s) == NameLoop(s, 1)

\* extract_person_name called once
ExtractPersonName ==
  /\ pc = "off"
  /\ person_name = <<>>
  /\ person_name' = extract_person_name(file_name)
  /\ UNCHANGED <<batchVars, classifierVars, extractorVars, raceVars, pageVars, file_name>>

(***************************************************************************)
(* The name resolver alone: one call on every file name made of at most    *)
(* MaxNameParts parts.                                                     *)
(***************************************************************************)
MaxNameParts == 3

\* 滴滴电子发票123_456_, 张三, 王小明, 李, .pdf, invoice123, -, .PDF, newline
NameParts ==
  {ProviderPrefix \o <<"1", "2", "3", "_", "4", "5", "6", "_">>,
   <<"u5f20", "u4e09">>,
   <<"u738b", "u5c0f", "u660e">>,
   <<"u674e">>,
   DotPdf,
   <<"i", "n", "v", "o", "i", "c", "e", "1", "2", "3">>,
   <<"-">>,
   <<".", "P", "D", "F">>,
   <<"\n">>}

Filenames == UNION {{Concat(q) : q \in [1..n -> NameParts]} : n \in 1..MaxNameParts}

InitName ==
  /\ IdleBatch
  /\ IdleClassifier
  /\ IdleExtractor
  /\ IdleRace
  /\ IdlePage
  /\ file_name \in Filenames
  /\ person_name = <<>>

NextName == ExtractPersonName

SpecName == InitName /\ [][NextName]_vars

(***************************************************************************)
(* app.py: the invoice extraction page.  A dict is a function from its     *)
(* keys, a key that is missing is not in its domain.  The keys 姓名, 事业部, *)
(* 大项目 and 费用所属月份(审核月份) are XingMing, ShiYeBu, DaXiangMu and     *)
(* ShenHeYueFen.  Streamlit runs the script of the page from top to bottom *)
(* on every event; st.rerun() ends the run and asks for the next one.      *)
(***************************************************************************)
\* dict.get(k, default)
Get(d, k, default) == IF k \in DOMAIN d THEN d[k] ELSE default

\* 未选择, 未选择事业部, 未选择大项目, 未选择年份, 未选择月份
NotSelected == <<"u672a", "u9009", "u62e9">>
NoBusinessUnit == <<"u672a", "u9009", "u62e9", "u4e8b", "u4e1a", "u90e8">>
NoProject == <<"u672a", "u9009", "u62e9", "u5927", "u9879", "u76ee">>
NoYear == <<"u672a", "u9009", "u62e9", "u5e74", "u4efd">>
NoMonth == <<"u672a", "u9009", "u62e9", "u6708", "u4efd">>

\* 未命名, 失败
Unnamed == <<"u672a", "u547d", "u540d">>
Failed == <<"u5931", "u8d25">>

\* a value that is a whole number, a value that is a string
IntValue(n) == [int |-> n]
StrValue(s) == [str |-> s]

\* the truth value Python gives a number or a string
Truthy(v) == IF "int" \in DOMAIN v THEN v.int # 0 ELSE v.str # <<>>

\* a number or a string inside an f-string
Formatted(v) == IF "int" \in DOMAIN v THEN IntToStr(v.int) ELSE v.str

\* lines 925-938: user_selected_options as _start_processing builds it from
\* the select boxes
selected_options(w) ==
  LET selected_bu      == Get(w, "drop", NoBusinessUnit)
      selected_project == Get(w, "daxiangmu", NoProject)
      selected_year    == Get(w, "sel_year", StrValue(NoYear))
      selected_month   == Get(w, "sel_month", StrValue(NoMonth))
  IN  [ShiYeBu      |-> selected_bu,
       DaXiangMu    |-> selected_project,
       ShenHeYueFen |-> IF Truthy(selected_year) /\ Truthy(selected_month)
                        THEN Formatted(selected_year) \o <<"u5e74">>
                               \o Formatted(selected_month)
                        ELSE NotSelected]

\* lines 993-1005: the name and the options of the user added to the record;
\* options is st.session_state.get("user_selected_options", {})
enrich(basic, name, options) ==
  ("XingMing" :> name)
    @@ ("ShiYeBu" :> Get(options, "ShiYeBu", NoBusinessUnit))
    @@ ("DaXiangMu" :> Get(options, "DaXiangMu", NoProject))
    @@ ("ShenHeYueFen" :> Get(options, "ShenHeYueFen", NoMonth))
    @@ basic

\* datetime.isoformat() of a time without microseconds
isoformat(t) ==
  IntToStr(t.year) \o <<"-">> \o TwoDigits(t.month) \o <<"-">> \o TwoDigits(t.day)
    \o <<"T">> \o TwoDigits(t.hour) \o <<":">> \o TwoDigits(t.minute)
    \o <<":">> \o TwoDigits(t.second)

\* the row with a missing enrichment field left empty
save_values_NoDefault(res, user_id, time) ==
  [user_id       |-> user_id,
   shenheyuefen  |-> Get(res, "ShenHeYueFen", <<>>),
   shiyebu       |-> Get(res, "ShiYeBu", <<>>),
   daxiangmu     |-> Get(res, "DaXiangMu", <<>>),
   filename      |-> Get(res, "WenJianMing", Unnamed),
   person_name   |-> Get(res, "XingMing", UnknownName),
   invoice_code  |-> Get(res, "FaPiaoDaiMa", <<>>),
   invoice_number |-> Get(res, "FaPiaoHaoMa", <<>>),
   invoice_date  |-> Get(res, "KaiPiaoRiQi", <<>>),
   amount        |-> Get(res, "JinE", 0),
   tax_rate      |-> Get(res, "ShuiLv", <<"0">>),
   tax_amount    |-> Get(res, "ShuiE", 0),
   total_amount  |-> Get(res, "JiaShuiHeJi", 0),
   status        |-> Get(res, "ZhuangTai", Failed),
   extracted_at  |-> Get(res, "TiQuShiJian", isoformat(time))]

\* lines 437-453: the values of the row, by column of the INSERT (the
\* default 0 of tax_rate is stored in a TEXT column, as "0")
save_values(res, user_id, time) ==
  [user_id       |-> user_id,
   shenheyuefen  |-> Get(res, "ShenHeYueFen", NotSelected),
   shiyebu       |-> Get(res, "ShiYeBu", NotSelected),
   daxiangmu     |-> Get(res, "DaXiangMu", NotSelected),
   filename      |-> Get(res, "WenJianMing", Unnamed),
   person_name   |-> Get(res, "XingMing", UnknownName),
   invoice_code  |-> Get(res, "FaPiaoDaiMa", <<>>),
   invoice_number |-> Get(res, "FaPiaoHaoMa", <<>>),
   invoice_date  |-> Get(res, "KaiPiaoRiQi", <<>>),
   amount        |-> Get(res, "JinE", 0),
   tax_rate      |-> Get(res, "ShuiLv", <<"0">>),
   tax_amount    |-> Get(res, "ShuiE", 0),
   total_amount  |-> Get(res, "JiaShuiHeJi", 0),
   status        |-> Get(res, "ZhuangTai", Failed),
   extracted_at  |-> Get(res, "TiQuShiJian", isoformat(time))]

\* what the database does with a call: sqlite3.connect raises, or it gives a
\* connection on which execute or commit raises, or all goes well
Sqlite == {"ok", "connect raises", "execute raises"}

\* _save_to_database(result, user_id): the connection is opened outside the
\* try, so its error leaves the method; an error of execute is logged
save_to_database(res, user_id, time, table, db) ==
  [raised   |-> db = "connect raises",
   invoices |-> IF db = "ok" THEN Append(table, save_values(res, user_id, time)) ELSE table]

\* SystemService.log_operation: as above, on table operation_logs
log_operation(logs, db) ==
  [raised         |-> db = "connect raises",
   operation_logs |-> IF db = "ok" THEN logs + 1 ELSE logs]

\* extract_invoice_info(pdf_path) on the document at the path, at a time:
\* the dicts it can return
extract_invoice_info(doc, path, time) ==
  IF TryBodyRaises(doc) = {} THEN SuccessRecords(doc.pages[1].text, path, time)
  ELSE {FailureRecord(e, path, time) : e \in {x \in TryBodyRaises(doc) : Handles(x.type)}}

\* the keys of a record in the order the code inserts them: lines 345-377 of
\* backend.py (a failure record has 文件名, 提取时间, 状态 only), then lines
\* 993-1005 of app.py
InsertionOrder ==
  <<"FaPiaoDaiMa", "FaPiaoHaoMa", "KaiPiaoRiQi", "JinE", "ShuiE", "JiaShuiHeJi", "ShuiLv",
    "WenJianMing", "TiQuShiJian", "ZhuangTai", "XingMing", "ShiYeBu", "DaXiangMu",
    "ShenHeYueFen">>

\* list(d.keys())
dict_keys(d) == LET has(k) == k \in DOMAIN d IN SelectSeq(InsertionOrder, has)

\* pd.DataFrame(records).columns: the keys in the order they first appear
RECURSIVE DataFrameColumns(_)
DataFrameColumns(records) ==
  IF records = <<>> THEN <<>>
  ELSE LET before == DataFrameColumns(SubSeq(records, 1, Len(records) - 1))
           new(k) == \A i \in 1..Len(before) : before[i] # k
       IN  before \o SelectSeq(dict_keys(records[Len(records)]), new)

\* desired_column_order
desired_column_order ==
  <<"ShenHeYueFen", "ShiYeBu", "DaXiangMu", "WenJianMing", "XingMing", "FaPiaoDaiMa",
    "FaPiaoHaoMa", "KaiPiaoRiQi", "JinE", "ShuiLv", "ShuiE", "JiaShuiHeJi", "ZhuangTai">>

\* the columns written in the order of the data frame, as
\* ExportService.export_to_excel writes them
export_columns_SourceOrder(records) == DataFrameColumns(records)

\* available_cols: the columns of desired_column_order the data frame has
export_columns(records) ==
  LET columns == DataFrameColumns(records)
      available(col) == \E i \in 1..Len(columns) : columns[i] = col
  IN  SelectSeq(desired_column_order, available)

\* df[available_cols] as to_excel writes it: the header and one row per
\* record, NaN where a record has no such key
export_sheet(records) ==
  LET cols == export_columns(records)
  IN  [columns |-> cols,
       rows    |-> [i \in 1..Len(records) |->
                      [j \in 1..Len(cols) |-> Get(records[i], cols[j], "NaN")]]]

\* os.path.join(folder, name)
os_path_join(folder, name) == folder \o <<"/">> \o name

\* temp_uploads
TempDir == <<"t", "e", "m", "p", "_", "u", "p", "l", "o", "a", "d", "s">>

\* the user id of the session
UserId == 1

\* 王小明.pdf, invoice123.pdf, c.PDF, notes.txt
GoodPdf == <<"u738b", "u5c0f", "u660e", ".", "p", "d", "f">>
BadPdf == <<"i", "n", "v", "o", "i", "c", "e", "1", "2", "3", ".", "p", "d", "f">>
UpperPdf == <<"c", ".", "P", "D", "F">>
NotesTxt == <<"n", "o", "t", "e", "s", ".", "t", "x", "t">>

\* what pdfplumber finds at a path: invoice123.pdf is no PDF, the others have
\* one page with a code and a table row
DocumentAt(path) ==
  IF os_path_basename(path) = BadPdf
  THEN [open |-> "PDFSyntaxError", message |-> <<"No /Root object!">>, pages |-> <<>>]
  ELSE Opened(<<TextPage(CodeLabel \o <<"uff1a", "1", "2", " ">> \o RowPiece(<<"6">>))>>)

\* the sequences without repetition of the elements of set S
Orders(S) ==
  {q \in [1..Cardinality(S) -> S] : \A i, j \in 1..Cardinality(S) : q[i] = q[j] => i = j}

\* the files of one upload, the batches of one session
MaxUploads == 2
MaxBatches == 2

\* what the user can put into the uploader
Uploads == UNION {Orders(S) : S \in {T \in SUBSET {GoodPdf, BadPdf, UpperPdf} :
                                       Cardinality(T) \in 1..MaxUploads}}

\* ./invoices
InvoicesFolder == <<".", "/", "i", "n", "v", "o", "i", "c", "e", "s">>

\* the folder typed in: not there, empty, or holding these files
Listings ==
  {[exists |-> FALSE, names |-> {}],
   [exists |-> TRUE, names |-> {NotesTxt}],
   [exists |-> TRUE, names |-> {GoodPdf, UpperPdf, NotesTxt}]}

\* the select boxes of _processing_options_section always hold a value
PageWidgets ==
  {[drop      |-> bu,
    daxiangmu |-> <<"u6df1", "u5733", "u79fb", "u52a8", "u7f51", "u4f18", "u4ee3", "u7ef4",
                    "u9879", "u76ee">>,
    sel_year  |-> IntValue(2025),
    sel_month |-> StrValue(<<"9", "u6708">>)] :
     bu \in {<<"u7b2c", "u4e8c", "u4e8b", "u4e1a", "u90e8">>}}

\* datetime.datetime.now() on the page
PageClock == {[year |-> 2025, month |-> 9, day |-> 1, hour |-> 8, minute |-> 30, second |-> 5]}

\* _file_upload_section and _folder_processing_section, which every run of
\* the script goes through first: <<uploaded_files, file_source>>
RunSections ==
  LET uploaded == IF uploader # <<>> THEN uploader ELSE uploaded_files
      source   == IF uploader # <<>> THEN "upload" ELSE file_source
  IN  <<uploaded, IF page_folder # <<>> THEN "folder" ELSE source>>

\* an event starts a run of the script when no run is under way
Idle == page_pc \in {"wait", "rerun"}

\* what the run of a button of _control_buttons_section leaves alone
databaseVars == <<invoices, operation_logs>>
inputVars == <<uploader, widgets, listing>>

\* the user puts files into the empty uploader, between two batches
ChooseFiles ==
  /\ Idle
  /\ ~processing
  /\ uploader = <<>>
  /\ \E files \in Uploads :
       /\ uploader' = files
       /\ uploaded_files' = files
       /\ file_source' = IF page_folder # <<>> THEN "folder" ELSE "upload"
  /\ page_pc' = "run"
  /\ exported' = <<>>
  /\ UNCHANGED <<batchVars, otherVars0, file_paths, current_file_index, current_results,
                 processing, paused, page_folder, user_selected_options, widgets, listing,
                 databaseVars, batches, basic_result>>

\* the user types the folder path, between two batches
TypeFolder ==
  /\ Idle
  /\ ~processing
  /\ page_folder = <<>>
  /\ page_folder' = InvoicesFolder
  /\ uploaded_files' = RunSections[1]
  /\ file_source' = "folder"
  /\ page_pc' = "run"
  /\ exported' = <<>>
  /\ UNCHANGED <<batchVars, otherVars0, file_paths, current_file_index, current_results,
                 processing, paused, user_selected_options, inputVars, databaseVars,
                 batches, basic_result>>

\* the names of the listing that _start_processing keeps
PdfNames == {n \in listing.names : endswith(lower(n), DotPdf)}

\* 开始处理, enabled when not processing: _start_processing
ClickStart ==
  /\ Idle
  /\ ~processing
  /\ batches < MaxBatches
  /\ uploaded_files' = RunSections[1]
  /\ file_source' = RunSections[2]
  /\ LET source == RunSections[2]
         begin(paths) ==
           /\ file_paths' = paths
           /\ current_file_index' = 0
           /\ current_results' = <<>>
           /\ processing' = TRUE
           /\ paused' = FALSE
           /\ user_selected_options' = selected_options(widgets)
           /\ batches' = batches + 1
           /\ page_pc' = "run"
         nothing(at) ==
           /\ page_pc' = at
           /\ UNCHANGED <<file_paths, current_file_index, current_results, processing,
                          paused, user_selected_options, batches>>
     IN  IF source = "upload" /\ RunSections[1] = <<>> THEN nothing("run")
         ELSE IF source = "folder" /\ page_folder = <<>> THEN nothing("run")
         ELSE IF source = "upload"
         THEN begin([i \in 1..Len(RunSections[1]) |-> os_path_join(TempDir, RunSections[1][i])])
         ELSE IF ~listing.exists THEN nothing("wait")
         ELSE IF PdfNames = {} THEN nothing("run")
         ELSE \E order \in Orders(PdfNames) :
                begin([i \in 1..Len(order) |-> os_path_join(page_folder, order[i])])
  /\ exported' = <<>>
  /\ UNCHANGED <<batchVars, otherVars0, page_folder, inputVars, databaseVars, basic_result>>

\* 暂停处理, enabled when processing and not paused: _pause_processing, then
\* st.rerun()
ClickPause ==
  /\ Idle
  /\ processing /\ ~paused
  /\ paused' = TRUE
  /\ uploaded_files' = RunSections[1]
  /\ file_source' = RunSections[2]
  /\ page_pc' = "rerun"
  /\ exported' = <<>>
  /\ UNCHANGED <<batchVars, otherVars0, file_paths, current_file_index, current_results,
                 processing, page_folder, user_selected_options, inputVars, databaseVars,
                 batches, basic_result>>

\* 继续处理, enabled when processing and paused: _resume_processing
ClickResume ==
  /\ Idle
  /\ processing /\ paused
  /\ paused' = FALSE
  /\ uploaded_files' = RunSections[1]
  /\ file_source' = RunSections[2]
  /\ page_pc' = "run"
  /\ exported' = <<>>
  /\ UNCHANGED <<batchVars, otherVars0, file_paths, current_file_index, current_results,
                 processing, page_folder, user_selected_options, inputVars, databaseVars,
                 batches, basic_result>>

\* 停止处理, enabled when processing: _stop_processing
ClickStop ==
  /\ Idle
  /\ processing
  /\ processing' = FALSE
  /\ paused' = FALSE
  /\ uploaded_files' = RunSections[1]
  /\ file_source' = RunSections[2]
  /\ page_pc' = "run"
  /\ exported' = <<>>
  /\ UNCHANGED <<batchVars, otherVars0, file_paths, current_file_index, current_results,
                 page_folder, user_selected_options, inputVars, databaseVars, batches,
                 basic_result>>

\* 清除结果, enabled when not processing: _clear_results
ClickClear ==
  /\ Idle
  /\ ~processing
  /\ current_results' = <<>>
  /\ file_paths' = <<>>
  /\ current_file_index' = 0
  /\ uploaded_files' = <<>>
  /\ page_folder' = <<>>
  /\ file_source' = RunSections[2]
  /\ page_pc' = "run"
  /\ exported' = <<>>
  /\ UNCHANGED <<batchVars, otherVars0, processing, paused, user_selected_options,
                 inputVars, databaseVars, batches, basic_result>>

\* 导出全部, shown with the results when the run reaches them:
\* _export_current_results.  The link to the sheet is on the page until the
\* script runs again
ClickExport ==
  /\ page_pc = "wait"
  /\ current_results # <<>>
  /\ ~(processing /\ ~paused /\ current_file_index < Len(file_paths))
  /\ exported' = export_sheet(current_results)
  /\ uploaded_files' = RunSections[1]
  /\ file_source' = RunSections[2]
  /\ UNCHANGED <<batchVars, otherVars0, file_paths, current_file_index, current_results,
                 processing, paused, page_folder, user_selected_options, inputVars,
                 databaseVars, page_pc, batches, basic_result>>

\* the run st.rerun() asked for starts
Rerun ==
  /\ page_pc = "rerun"
  /\ uploaded_files' = RunSections[1]
  /\ file_source' = RunSections[2]
  /\ page_pc' = "run"
  /\ exported' = <<>>
  /\ UNCHANGED <<batchVars, otherVars0, file_paths, current_file_index, current_results,
                 processing, paused, page_folder, user_selected_options, inputVars,
                 databaseVars, batches, basic_result>>

\* the user touches a widget that belongs to no button, while a batch stands
\* still: the script runs again
Refresh ==
  /\ page_pc = "wait"
  /\ processing
  /\ uploaded_files' = RunSections[1]
  /\ file_source' = RunSections[2]
  /\ page_pc' = "run"
  /\ exported' = <<>>
  /\ UNCHANGED <<batchVars, otherVars0, file_paths, current_file_index, current_results,
                 processing, paused, page_folder, user_selected_options, inputVars,
                 databaseVars, batches, basic_result>>

\* lines 808-809 and 981-985: the next file is due
Due == processing /\ ~paused /\ current_file_index < Len(file_paths)

\* the run goes past the progress section and ends
ScriptEnds ==
  /\ page_pc = "run"
  /\ ~Due
  /\ page_pc' = "wait"
  /\ UNCHANGED <<batchVars, otherVars0, file_paths, current_file_index, current_results,
                 processing, paused, uploaded_files, file_source, page_folder,
                 user_selected_options, inputVars, databaseVars, batches, exported,
                 basic_result>>

\* lines 1007-1027 on the enriched record, with the database doing db1 on
\* the call of the sink and db2 on the call of log_operation: what the step
\* leaves behind.  An exception of the try body (sqlite3.connect raising in
\* _save_to_database or in log_operation) goes to the except branch, which
\* adds one to the index; the run then ends without st.rerun()
step_outcome(rec, time, db1, db2) ==
  LET wanted == Get(rec, "ZhuangTai", <<>>) = SuccessStatus
      saved  == IF wanted THEN save_to_database(rec, UserId, time, invoices, db1)
                ELSE [raised |-> FALSE, invoices |-> invoices]
      last   == current_file_index + 1 >= Len(file_paths)
      logged == IF last /\ ~saved.raised THEN log_operation(operation_logs, db2)
                ELSE [raised |-> FALSE, operation_logs |-> operation_logs]
  IN  [invoices           |-> saved.invoices,
       operation_logs     |-> logged.operation_logs,
       current_results    |-> IF saved.raised THEN current_results
                              ELSE Append(current_results, rec),
       processing         |-> IF last /\ ~saved.raised THEN FALSE ELSE processing,
       current_file_index |-> IF logged.raised THEN current_file_index + 2
                              ELSE current_file_index + 1,
       page_pc            |-> IF saved.raised \/ logged.raised THEN "wait" ELSE "rerun"]

\* _process_next_file on the file at the index: every way the step can end
process_next_file ==
  LET file_path == file_paths[current_file_index + 1]
      name      == extract_person_name(os_path_basename(file_path))
  IN  {step_outcome(enrich(basic, name, user_selected_options), time, db1, db2) :
         basic \in UNION {extract_invoice_info(DocumentAt(file_path), file_path, t) :
                            t \in PageClock},
         time \in PageClock, db1 \in Sqlite, db2 \in Sqlite}

\* _process_next_file, called by _show_processing_progress when the next
\* file is due
ProcessNextFile ==
  /\ page_pc = "run"
  /\ Due
  /\ \E after \in process_next_file :
       /\ invoices' = after.invoices
       /\ operation_logs' = after.operation_logs
       /\ current_results' = after.current_results
       /\ processing' = after.processing
       /\ current_file_index' = after.current_file_index
       /\ page_pc' = after.page_pc
  /\ UNCHANGED <<batchVars, otherVars0, file_paths, paused, uploaded_files, file_source,
                 page_folder, user_selected_options, inputVars, batches, exported,
                 basic_result>>

\* _init_session_state, and the page shown for the first time
InitPage ==
  /\ IdleBatch
  /\ IdleClassifier
  /\ IdleExtractor
  /\ IdleRace
  /\ IdleName
  /\ file_paths = <<>>
  /\ current_file_index = 0
  /\ current_results = <<>>
  /\ processing = FALSE
  /\ paused = FALSE
  /\ uploaded_files = <<>>
  /\ file_source = "upload"
  /\ page_folder = <<>>
  /\ user_selected_options = <<>>
  /\ uploader = <<>>
  /\ widgets \in PageWidgets
  /\ listing \in Listings
  /\ invoices = <<>>
  /\ operation_logs = 0
  /\ page_pc = "wait"
  /\ batches = 0
  /\ exported = <<>>
  /\ basic_result = <<>>

NextPage ==
  \/ ChooseFiles
  \/ TypeFolder
  \/ ClickStart
  \/ ClickPause
  \/ ClickResume
  \/ ClickStop
  \/ ClickClear
  \/ ClickExport
  \/ Rerun
  \/ Refresh
  \/ ScriptEnds
  \/ ProcessNextFile

SpecPage == InitPage /\ [][NextPage]_vars

\* the page of a user who never clicks 停止处理
NextPageLive ==
  \/ ChooseFiles
  \/ TypeFolder
  \/ ClickStart
  \/ ClickPause
  \/ ClickResume
  \/ ClickClear
  \/ ClickExport
  \/ Rerun
  \/ Refresh
  \/ ScriptEnds
  \/ ProcessNextFile

\* a step of ProcessNextFile, by what it does to the index: enabled when
\* ProcessNextFile is, and no other step of the page is one
LoopStep ==
  /\ page_pc = "run"
  /\ Due
  /\ current_file_index' \in {current_file_index + 1, current_file_index + 2}

\* Streamlit starts the run st.rerun() asked for and runs the script to its
\* end, the call of _process_next_file included; of the user it is given
\* that a paused batch is resumed
SpecPageLive ==
  /\ InitPage
  /\ [][NextPageLive]_vars
  /\ WF_vars(Rerun)
  /\ WF_vars(ScriptEnds)
  /\ WF_current_file_index(LoopStep)
  /\ SF_vars(ClickResume)


(***************************************************************************)
(* The path of one record to the table, function by function: the options  *)
(* of _start_processing, the enrichment of _process_next_file and          *)
(* _save_to_database, each called or not, on a session that holds any of   *)
(* the keys of the select boxes.                                           *)
(***************************************************************************)
\* the keys of the select boxes
WidgetKeys == {"drop", "daxiangmu", "sel_year", "sel_month"}

\* a session holds some of the keys; a month can be the empty string
SinkWidgets ==
  UNION {{[k \in K |-> w[k]] : K \in SUBSET WidgetKeys} : w \in PageWidgets}
    \cup {[w EXCEPT !.sel_month = StrValue(<<>>)] : w \in PageWidgets}

\* the records of extract_invoice_info on the two uploads
SinkBasics ==
  UNION {extract_invoice_info(DocumentAt(os_path_join(TempDir, n)),
                              os_path_join(TempDir, n), t) :
           n \in {GoodPdf, BadPdf}, t \in PageClock}

\* lines 925-938 of _start_processing
BuildOptions ==
  /\ page_pc = "call"
  /\ user_selected_options' = selected_options(widgets)
  /\ page_pc' = "options"
  /\ UNCHANGED <<batchVars, otherVars0, file_paths, current_file_index, current_results,
                 processing, paused, uploaded_files, file_source, page_folder, inputVars,
                 databaseVars, batches, exported, basic_result>>

\* lines 993-1005 of _process_next_file, on the options of the session
EnrichRecord ==
  /\ page_pc \in {"call", "options"}
  /\ current_results' =
       <<enrich(basic_result, extract_person_name(basic_result.WenJianMing),
                user_selected_options)>>
  /\ page_pc' = "enriched"
  /\ UNCHANGED <<batchVars, otherVars0, file_paths, current_file_index, processing, paused,
                 uploaded_files, file_source, page_folder, user_selected_options, inputVars,
                 databaseVars, batches, exported, basic_result>>

\* the record _save_to_database is called with: enriched, or as extracted
Handed == IF page_pc = "enriched" THEN current_results[1] ELSE basic_result

\* _save_to_database(result, user_id)
SaveRecord ==
  /\ page_pc \in {"call", "options", "enriched"}
  /\ \E time \in PageClock, db \in Sqlite :
       invoices' = save_to_database(Handed, UserId, time, invoices, db).invoices
  /\ page_pc' = "saved"
  /\ UNCHANGED <<batchVars, otherVars0, file_paths, current_file_index, current_results,
                 processing, paused, uploaded_files, file_source, page_folder,
                 user_selected_options, inputVars, operation_logs, batches, exported,
                 basic_result>>

InitSink ==
  /\ IdleBatch
  /\ IdleClassifier
  /\ IdleExtractor
  /\ IdleRace
  /\ IdleName
  /\ file_paths = <<>>
  /\ current_file_index = 0
  /\ current_results = <<>>
  /\ processing = FALSE
  /\ paused = FALSE
  /\ uploaded_files = <<>>
  /\ file_source = "upload"
  /\ page_folder = <<>>
  /\ user_selected_options = <<>>
  /\ uploader = <<>>
  /\ widgets \in SinkWidgets
  /\ listing = <<>>
  /\ invoices = <<>>
  /\ operation_logs = 0
  /\ page_pc = "call"
  /\ batches = 0
  /\ exported = <<>>
  /\ basic_result \in SinkBasics

NextSink ==
  \/ BuildOptions
  \/ EnrichRecord
  \/ SaveRecord

SpecSink == InitSink /\ [][NextSink]_vars

(***************************************************************************)
(* The classifier alone: every text made of at most MaxPieces pieces, a    *)
(* piece being a keyword of the table, a keyword in another letter case,   *)
(* or a single character.                                                  *)
(***************************************************************************)
TextPieces ==
  UNION {{categories[i].keywords[k] : k \in 1..Len(categories[i].keywords)} :
           i \in 1..Len(categories)}
  \cup {<<"e", "t", "c">>, <<"E", "t", "C">>, <<"E">>, <<"T">>, <<"u5730">>, <<"u94c1">>,
        <<"u8f66">>, <<"x">>}

ClassifierTexts ==
  {Concat(ps) : ps \in UNION {[1..n -> TextPieces] : n \in 0..MaxPieces}}

InitClassifier ==
  /\ IdleBatch
  /\ IdleExtractor
  /\ IdleRace
  /\ IdleRest
  /\ text \in ClassifierTexts
  /\ assigned = ""

\* lines 50-59 of classify_pdfs on the text read from one PDF
Classify ==
  /\ pc = "off"
  /\ assigned = ""
  /\ assigned' = classify_text(text)
  /\ UNCHANGED <<batchVars, extractorVars, raceVars, restVars, text>>

NextClassifier == Classify

SpecClassifier == InitClassifier /\ [][NextClassifier]_vars

(***************************************************************************)
(* Claims about the classifier.                                            *)
(***************************************************************************)
\* the table order the specification declares: 地铁发票, 高铁发票, 滴滴打车发票,
\* 顺丰发票, 通行费电子发票, 餐饮发票, 住宿发票, 办公用品发票
DeclaredOrder ==
  <<"DiTieFaPiao", "GaoTieFaPiao", "DiDiDaCheFaPiao", "ShunFengFaPiao",
    "TongXingFeiDianZiFaPiao", "CanYinFaPiao", "ZhuSuFaPiao", "BanGongYongPinFaPiao">>

\* the pairs of a letter and the same letter in the other case
CasePairs ==
  {<<UpperLetters[i], LowerLetters[i]>> : i \in 1..26}
  \cup {<<LowerLetters[i], UpperLetters[i]>> : i \in 1..26}

\* keyword kw occurs in text t when letter case is ignored
OccursIgnoringCase(kw, t) ==
  \E off \in 0..(Len(t) - Len(kw)) :
    \A j \in 1..Len(kw) : kw[j] = t[off + j] \/ <<kw[j], t[off + j]>> \in CasePairs

\* the declared categories with at least one keyword occurring in t
CategoriesHit(t) ==
  {i \in 1..Len(DeclaredOrder) :
     \E c \in 1..Len(categories) :
       /\ categories[c].name = DeclaredOrder[i]
       /\ \E k \in 1..Len(categories[c].keywords) :
            OccursIgnoringCase(categories[c].keywords[k], t)}

Earliest(S) == CHOOSE i \in S : \A j \in S : i <= j

\* 地铁 and 铁路
MetroWord == <<"u5730", "u94c1">>
RailWord == <<"u94c1", "u8def">>

\* C3: the classifier assigns the earliest category, in the declared table
\* order, that has a keyword occurring in the text with letter case ignored;
\* a text with both 地铁 and 铁路 is assigned 地铁发票
C3_EarliestCategoryWins ==
  assigned # "" =>
    /\ LET hit == CategoriesHit(text)
       IN  hit # {} => assigned = DeclaredOrder[Earliest(hit)]
    /\ (StrIn(MetroWord, text) /\ StrIn(RailWord, text)) => assigned = "DiTieFaPiao"

\* a classified text in which 地铁 and 铁路 both occur
C3_Witness_MetroBeforeRail ==
  /\ assigned = "DiTieFaPiao"
  /\ StrIn(MetroWord, text)
  /\ StrIn(RailWord, text)

\* C4: every text is assigned exactly one category of the table, and a text
\* with no keyword in it, the empty text included, the catch-all 其他发票
C4_AssignmentTotal ==
  assigned # "" =>
    /\ assigned \in CategoryNames
    /\ CategoriesHit(text) = {} => assigned = "QiTaFaPiao"
    /\ text = <<>> => assigned = "QiTaFaPiao"

\* the empty text has been classified into the catch-all
C4_Witness_CatchAll ==
  /\ text = <<>>
  /\ assigned = "QiTaFaPiao"

(***************************************************************************)
(* Claims about the batch: classify_pdfs followed by move_to_output.       *)
(***************************************************************************)
\* the staging root of the run
StagingRoot == join(folder_path, "temp_output")

\* the paths of f at which the file with identity id lies
PathsOf(f, id) == {q \in DOMAIN f : f[q] = id}

\* the identities of the regular files of f below root
FilesBelow(f, root) == {f[q] : q \in {r \in DOMAIN f : Below(root, r)}} \ {DirNode}

\* the part of f at and below root
TreeAt(f, root) == [q \in {r \in DOMAIN f : r = root \/ Below(root, r)} |-> f[q]]

\* the first call of move_to_output has returned normally
MergedOnce == pc = "done" /\ calls = 1

\* C2: move_to_output never loses and never duplicates a file: every file of
\* the output tree before the call is in the output tree after it, and every
\* staged file exists at exactly one path after it
C2_MergeKeepsEveryFile ==
  MergedOnce =>
    /\ \A id \in FilesBelow(fsMerge, output_folder) : id \in FilesBelow(fs, output_folder)
    /\ \A id \in FilesBelow(fsMerge, temp_output) : Cardinality(PathsOf(fs, id)) = 1

\* the name ends in .pdf, in any letter case
HasPdfExtension(n) ==
  LET c == NameChars[n]
      k == Len(c)
  IN  /\ k >= 4
      /\ c[k - 3] = "."
      /\ c[k - 2] \in {"p", "P"}
      /\ c[k - 1] \in {"d", "D"}
      /\ c[k] \in {"f", "F"}

\* the files of the source folder whose name ends in .pdf
PdfEntries ==
  {n \in listdir(fs0, folder_path) :
     HasPdfExtension(n) /\ isfile(fs0, join(folder_path, n))}

\* the text of the PDF named n was read
ReadOk(n) == content[fs0[join(folder_path, n)]].ok

\* where the PDF named n belongs in the staged tree
StagedPath(n) ==
  join(join(StagingRoot, classify_text(content[fs0[join(folder_path, n)]].text)), n)

\* the PDF named n lies at its staged path and nowhere else
Staged(n) == PathsOf(fs, fs0[join(folder_path, n)]) = {StagedPath(n)}

\* the entries classify_pdfs must not move are where they were: those without
\* a .pdf extension, and what lies in subfolders (an earlier staged file may
\* have been replaced, but lies nowhere else)
OthersNotMoved ==
  \A q \in DOMAIN fs0 :
    (Below(folder_path, q) /\ (Len(q) > Len(folder_path) + 1
                               \/ ~HasPdfExtension(q[Len(folder_path) + 1]))) =>
      IF Below(StagingRoot, q) /\ fs0[q] # DirNode
      THEN PathsOf(fs, fs0[q]) \subseteq {q}
      ELSE q \in DOMAIN fs /\ fs[q] = fs0[q]

\* C5 as stated: when classify_pdfs has returned, every .pdf file (any letter
\* case) whose text was read lies in the staged subfolder of its category and
\* no longer in the source folder; other entries were not moved
C5_EveryReadPdfStaged ==
  pc = "classified" =>
    /\ \A n \in PdfEntries : ReadOk(n) => Staged(n)
    /\ OthersNotMoved

\* C5 as amended: the same for every .pdf file whose text was read and whose
\* os.rename did not raise
C5_EveryRenamedPdfStaged ==
  pc = "classified" =>
    /\ \A n \in PdfEntries : (ReadOk(n) /\ n \notin caught) => Staged(n)
    /\ OthersNotMoved

\* classify_pdfs returned having staged the upper-case B.PDF
C5_Witness_UpperCaseStaged ==
  /\ pc = "classified"
  /\ "B.PDF" \in PdfEntries
  /\ ReadOk("B.PDF")
  /\ Staged("B.PDF")
  /\ isfile(fs, join(folder_path, "notes.txt"))

C7_MergePostcondition ==
  MergedOnce =>
    /\ \A c \in listdir(fsMerge, temp_output) :
         LET src == join(temp_output, c)
             dst == join(output_folder, c)
         IN  /\ isdir(fs, dst)
             /\ FilesBelow(fs, dst) =
                  FilesBelow(fsMerge, src) \cup
                  (IF exists(fsMerge, dst) THEN FilesBelow(fsMerge, dst) ELSE {})
             /\ \A n \in listdir(fsMerge, src) :
                  /\ join(dst, n) \in DOMAIN fs
                  /\ fs[join(dst, n)] = fsMerge[join(src, n)]
             /\ ~exists(fs, src)
    /\ ~exists(fs, temp_output)

\* the output tree move_to_output must produce from file system f: what output/
\* held, each staged category folder, and each staged file under its name
MergedOutput(f, temp) ==
  LET old    == {q \in DOMAIN f : q = output_folder \/ Below(output_folder, q)}
      folder == {join(output_folder, c) : c \in listdir(f, temp)}
      file   == UNION {{join(join(output_folder, c), n) : n \in listdir(f, join(temp, c))} :
                         c \in listdir(f, temp)}
      staged(q) == join(join(temp, q[Len(q) - 1]), q[Len(q)])
  IN  [q \in old \cup {output_folder} \cup folder \cup file |->
         IF q \in file THEN f[staged(q)]
         ELSE IF q \in old THEN f[q]
         ELSE DirNode]

OneDidiPdf(n) ==
  /\ PdfEntries = {n}
  /\ ReadOk(n)
  /\ content[fs0[join(folder_path, n)]].text = DidiText
  /\ ~exists(fs0, StagingRoot)

\* C9: for such a source folder, with no move refused by the operating system,
\* classify_pdfs leaves one staged file, under 滴滴打车发票, and move_to_output
\* leaves that file once, at output/滴滴打车发票/<filename>, and neither in the
\* source folder nor under the staging root
C9_EndToEndDidi ==
  \A n \in {PdfPool[i] : i \in 1..MaxPdfs} :
    (pc # "off" /\ folder_path = SourceFolder /\ OneDidiPdf(n)) =>
      LET id == fs0[join(folder_path, n)]
      IN  /\ (pc = "classified" /\ caught = {}) =>
               /\ FilesBelow(fs, temp_output) = {id}
               /\ PathsOf(fs, id) = {join(join(temp_output, "DiDiDaCheFaPiao"), n)}
          /\ (MergedOnce /\ caught = {}) =>
               /\ PathsOf(fs, id) = {join(join(output_folder, "DiDiDaCheFaPiao"), n)}
               /\ ~exists(fs, StagingRoot)
               /\ ~exists(fs, join(folder_path, n))

\* the end-to-end run has finished for a source folder with the one PDF a.pdf
C9_Witness_DidiMerged ==
  /\ MergedOnce
  /\ caught = {}
  /\ OneDidiPdf("a.pdf")
  /\ isfile(fs, join(join(output_folder, "DiDiDaCheFaPiao"), "a.pdf"))

\* C10: a second move_to_output on the staged path the first call merged
\* changes nothing: the output tree and the place of every file are as before
C10_SecondMergeChangesNothing ==
  calls >= 2 =>
    /\ TreeAt(fs, output_folder) = TreeAt(fsMerge, output_folder)
    /\ \A id \in FileIds : PathsOf(fs, id) = PathsOf(fsMerge, id)
    /\ fs = fsMerge

\* the second call has been made after the first merged a staged file
C10_Witness_SecondCall ==
  /\ calls = 2
  /\ FilesBelow(fs, output_folder) # {}
  /\ ~exists(fs, temp_output)

\* where move_to_output puts the staged path q
OutputPathOf(q) == output_folder \o SubSeq(q, Len(temp_output) + 1, Len(q))

\* the first call of move_to_output is running or has raised
FirstMerge == calls = 1 /\ pc \in {"merge", "merge_files", "raised"}

\* C11: an error while moving a file or a category folder ends move_to_output
\* at once (the loops go on only past entries that were moved), and when the
\* call has raised nothing was rolled back and the staging root is still
\* there: every staged file lies once, at its staged path or at its place in
\* the output tree
C11_MergeErrorPropagates ==
  /\ FirstMerge =>
       /\ isdir(fs, temp_output)
       /\ \A q \in DOMAIN fsMerge :
            (Below(temp_output, q) /\ fsMerge[q] # DirNode) =>
              \/ PathsOf(fs, fsMerge[q]) = {q}
              \/ PathsOf(fs, fsMerge[q]) = {OutputPathOf(q)}
  /\ (calls = 1 /\ pc \in {"merge", "merge_files"}) =>
       \A c \in listdir(fsMerge, temp_output) \ mtodo : ~exists(fs, join(temp_output, c))
  /\ (calls = 1 /\ pc = "merge_files") =>
       \A n \in listdir(fsMerge, join(temp_output, category)) \ ftodo :
         LET q == join(join(temp_output, category), n)
         IN  isfile(fsMerge, q) =>
               /\ ~exists(fs, q)
               /\ OutputPathOf(q) \in DOMAIN fs
               /\ fs[OutputPathOf(q)] = fsMerge[q]

\* the first call has raised with a category partially merged: one of its
\* staged files is in the output tree, another still in the staged tree
C11_Witness_PartiallyMerged ==
  /\ calls = 1
  /\ pc = "raised"
  /\ \E c \in CategoryNames :
       /\ \E q \in DOMAIN fsMerge :
            /\ Below(join(temp_output, c), q)
            /\ fsMerge[q] # DirNode
            /\ PathsOf(fs, fsMerge[q]) = {OutputPathOf(q)}
       /\ \E q \in DOMAIN fs :
            /\ Below(join(temp_output, c), q)
            /\ fs[q] # DirNode

\* the batch ended with the error message of the page's except branch
BatchRaised == pc = "raised"

Nested ==
  \E k \in 1..Len(RaceCategories) :
    isdir(fs, join(join(output_folder, RaceCategories[k]), RaceCategories[k]))

\* C13: two concurrent move_to_output calls can race between the existence
\* check and the move.  A nested folder output/<category>/<category> and a
\* call that raises occur only after an instance acted on an answer of
\* os.path.exists that was no longer true, and an answer goes stale only when
\* the other instance has written in between: a run of one instance alone
\* produces neither
C13_RaceNeedsInterleaving ==
  migrators # <<>> =>
    /\ Nested => \E i \in Migrators : migrators[i].stale
    /\ \A i \in Migrators : migrators[i].pc = "raised" => migrators[i].stale
    /\ \A i \in Migrators :
         migrators[i].stale =>
           \E j \in Migrators \ {i} : migrators[j].pc \notin {"start", "make_output"}

\* both calls have returned and the staged folder of one lies nested in the
\* output folder the other created
C13_Witness_NestedFolder ==
  /\ migrators # <<>>
  /\ Nested
  /\ \A i \in Migrators : migrators[i].pc = "done"

(***************************************************************************)
(* Claims about the extractor.                                             *)
(***************************************************************************)
\* the call is over
Returned == DOMAIN result # {}

\* name is what follows the last separator of path
IsBasenameOf(name, path) ==
  /\ \A i \in 1..Len(name) : name[i] # "/"
  /\ Len(name) <= Len(path)
  /\ SubSeq(path, Len(path) - Len(name) + 1, Len(path)) = name
  /\ Len(name) < Len(path) => path[Len(path) - Len(name)] = "/"

\* the text of the exception the document makes the try body raise
RaisedTexts ==
  IF document.open # "" THEN {document.message}
  ELSE IF raised = "IndexError" THEN {<<"list index out of range">>}
  ELSE IF raised = "ValueError" THEN {document.pages[1].text}
  ELSE NoneTextMessages

\* C1: extract_invoice_info never raises: no exception leaves it, and when
\* opening the file, reading the first page or an extraction step throws, what
\* it returns has exactly the keys 文件名, 提取时间 and 状态, where 文件名 is
\* the basename of the path, 提取时间 is set, and 状态 is '失败: ' followed by
\* the text of the exception.
C1_NeverRaises ==
  /\ ~escaped
  /\ raised # "" =>
       /\ Returned
       /\ DOMAIN result = {"WenJianMing", "TiQuShiJian", "ZhuangTai"}
       /\ IsBasenameOf(result.WenJianMing, pdf_path)
       /\ Len(result.TiQuShiJian) = 19
       /\ \E m \in RaisedTexts : result.ZhuangTai = <<"u5931", "u8d25", ":", " ">> \o m

\* C1 witness: a document without pages, at a path with a directory part, has
\* raised IndexError and the failure record was returned.
C1_Witness_FailureRecord ==
  /\ raised = "IndexError"
  /\ Returned
  /\ pdf_path = <<"tmp", "/", "b.pdf">>
  /\ result.WenJianMing = <<"b.pdf">>

\* 发票代码, 发票号码, 开票日期, 金额, 税额, 价税合计, 税率, 文件名, 提取时间, 状态
KnownFields ==
  {"FaPiaoDaiMa", "FaPiaoHaoMa", "KaiPiaoRiQi", "JinE", "ShuiE", "JiaShuiHeJi", "ShuiLv",
   "WenJianMing", "TiQuShiJian", "ZhuangTai"}

\* C14: every record extract_invoice_info returns, a failure record included,
\* has every known field as a key, 发票代码 and 发票号码 among them
C14_EveryRecordHasAllFields ==
  Returned => KnownFields \subseteq DOMAIN result

\* the record of a text that was read: the amount strategies have run
Extracted == Returned /\ raised = ""

\* C15: in every record the extractor builds from a text, 价税合计 is 金额
\* plus 税额, whatever pair the amount strategies gave, the defaulted 0.0
\* values included
C15_GrossIsAmountPlusTax ==
  Extracted => result.JiaShuiHeJi = result.JinE + result.ShuiE

\* a record with 金额 100.00, 税额 6.00 and 价税合计 106.00
C15_Witness_NonZeroSum ==
  /\ Extracted
  /\ result.JinE = 10000
  /\ result.ShuiE = 600
  /\ result.JiaShuiHeJi = 10600

\* text t with the printed percent of every table row 6% changed to 13% and
\* of every row 13% to 6%, from position i on
RECURSIVE SwapPercent(_, _)
SwapPercent(t, i) ==
  IF i > Len(t) THEN <<>>
  ELSE IF LiteralAt(t, i, RowPiece(<<"6">>))
  THEN RowPiece(<<"1", "3">>) \o SwapPercent(t, i + Len(RowPiece(<<"6">>)))
  ELSE IF LiteralAt(t, i, RowPiece(<<"1", "3">>))
  THEN RowPiece(<<"6">>) \o SwapPercent(t, i + Len(RowPiece(<<"1", "3">>)))
  ELSE <<t[i]>> \o SwapPercent(t, i + 1)

\* the text handed to the extractor
PageText == document.pages[1].text

\* C16: 税率 is "N%" with N a whole number nearest to 税额 / 金额 * 100 when
\* 金额 > 0 and "0%" otherwise; it is computed from the two stored values, which
\* the percent printed in a table row does not change
C16_RateRecomputed ==
  Extracted =>
    /\ IF result.JinE > 0
       THEN \E N \in {(100 * result.ShuiE) \div result.JinE,
                      (100 * result.ShuiE) \div result.JinE + 1} :
              /\ 2 * (100 * result.ShuiE - N * result.JinE) <= result.JinE
              /\ 2 * (N * result.JinE - 100 * result.ShuiE) <= result.JinE
              /\ result.ShuiLv = IntToStr(N) \o <<"%">>
       ELSE result.ShuiLv = <<"0", "%">>
    /\ \A other \in SuccessRecords(SwapPercent(PageText, 1), pdf_path, now) :
         /\ other.JinE = result.JinE
         /\ other.ShuiE = result.ShuiE

\* a text whose table row prints 13% has given the rate 6%
C16_Witness_PrintedPercentIgnored ==
  /\ Extracted
  /\ PageText = RowPiece(<<"1", "3">>)
  /\ result.ShuiLv = <<"6", "%">>

\* positions a..b of t hold digits only / white space only
AllDigits(t, a, b) == \A k \in a..b : IsDigit(t[k])
AllSpaces(t, a, b) == \A k \in a..b : IsSpace(t[k])

\* positions a..b of t hold a number with two decimals: digits, a point, two
\* digits
TwoDecimals(t, a, b) ==
  /\ a + 3 <= b
  /\ b <= Len(t)
  /\ t[b - 2] = "."
  /\ AllDigits(t, a, b - 3)
  /\ AllDigits(t, b - 1, b)

\* the table rows of t that begin at position i, as <<first number, third
\* number>>: a 2-decimal number, white space, a whole number and %, white
\* space, a 2-decimal number
RowsAt(t, i) ==
  UNION {UNION {UNION {UNION {
    {<<SubSeq(t, i, a), SubSeq(t, d, e)>> : e \in {x \in (d + 3)..Len(t) : TwoDecimals(t, d, x)}}
    : d \in {x \in (c + 2)..Len(t) : AllSpaces(t, c + 1, x - 1)}}
    : c \in {x \in (b + 1)..Len(t) : AllDigits(t, b, x - 1) /\ t[x] = "%"}}
    : b \in {x \in (a + 2)..Len(t) : AllSpaces(t, a + 1, x - 1)}}
    : a \in {x \in (i + 3)..Len(t) : TwoDecimals(t, i, x)}}

\* the positions of t at which a table row begins
RowStarts(t) == {i \in {k \in 1..Len(t) : IsDigit(t[k])} : RowsAt(t, i) # {}}

\* the currency-marked number of t at position i: a currency sign, white
\* space or none, a 2-decimal number
MarkedAt(t, i) ==
  IF ~IsYuan(t[i]) THEN {}
  ELSE UNION {{SubSeq(t, d, e) : e \in {x \in (d + 3)..Len(t) : TwoDecimals(t, d, x)}}
                : d \in {x \in (i + 1)..Len(t) : AllSpaces(t, i + 1, x - 1)}}

\* the positions of t at which a currency-marked number begins
MarkedStarts(t) == {i \in 1..Len(t) : MarkedAt(t, i) # {}}

\* the least position of a set of positions
First(S) == CHOOSE i \in S : \A j \in S : i <= j

\* the value of a 2-decimal number, in cents
Cents(d) ==
  LET whole == SubSeq(d, 1, Len(d) - 3)
      value[k \in 0..Len(whole)] ==
        IF k = 0 THEN 0 ELSE 10 * value[k - 1] + DigitValue(whole[k])
  IN  100 * value[Len(whole)] + 10 * DigitValue(d[Len(d) - 1]) + DigitValue(d[Len(d)])

\* C17: for a text with a table row and two or more currency-marked numbers,
\* 金额 and 税额 are the first and the third number of the first table row
C17_TableRowHasPriority ==
  (Extracted /\ Cardinality(MarkedStarts(PageText)) >= 2 /\ RowStarts(PageText) # {}) =>
    \E row \in RowsAt(PageText, First(RowStarts(PageText))) :
      /\ result.JinE = Cents(row[1])
      /\ result.ShuiE = Cents(row[2])

\* a text with two currency-marked numbers before its table row has given the
\* numbers of the row
C17_Witness_RowAfterCurrency ==
  /\ Extracted
  /\ Cardinality(MarkedStarts(PageText)) = 2
  /\ RowStarts(PageText) # {}
  /\ First(MarkedStarts(PageText)) < First(RowStarts(PageText))
  /\ result.JinE = 10000
  /\ result.ShuiE = 600

\* C18: for a text without a table row, 金额 and 税额 are the first and the
\* second currency-marked number in text order when there are at least two,
\* and both 0.0 when there is one or none
C18_CurrencyNeedsTwoNumbers ==
  (Extracted /\ RowStarts(PageText) = {}) =>
    LET marked == MarkedStarts(PageText)
    IN  IF Cardinality(marked) >= 2
        THEN /\ \E n \in MarkedAt(PageText, First(marked)) : result.JinE = Cents(n)
             /\ \E n \in MarkedAt(PageText, First(marked \ {First(marked)})) :
                  result.ShuiE = Cents(n)
        ELSE result.JinE = 0 /\ result.ShuiE = 0

\* a text with exactly one currency-marked number, 7.00, and no table row has
\* given 金额 0.0 and 税额 0.0
C18_Witness_SingleNumberDropped ==
  /\ Extracted
  /\ RowStarts(PageText) = {}
  /\ Cardinality(MarkedStarts(PageText)) = 1
  /\ \E i \in MarkedStarts(PageText) : \E n \in MarkedAt(PageText, i) : Cents(n) = 700
  /\ result.JinE = 0
  /\ result.ShuiE = 0

\* extract_invoice_info has been called and is over
Called == Returned \/ escaped \/ raised # ""

\* the document opens and its first page has a text
ReadablePage ==
  /\ document.open = ""
  /\ document.pages # <<>>
  /\ document.pages[1].extract_text = "text"

\* the text has no code label, no number label, no date label, no table row
\* and no currency-marked number
NothingToFind(t) ==
  /\ ~StrIn(CodeLabel, t)
  /\ ~StrIn(NumberLabel, t)
  /\ ~StrIn(DateLabel, t)
  /\ RowStarts(t) = {}
  /\ MarkedStarts(t) = {}

\* C19: a readable first page in whose text no field is found gives a
\* successful record: 状态 = 成功, 发票代码, 发票号码 and 开票日期 empty,
\* 金额, 税额 and 价税合计 0.0, 税率 "0%"
C19_MissIsNotFailure ==
  (Called /\ ReadablePage /\ NothingToFind(PageText)) =>
    /\ Returned
    /\ raised = ""
    /\ result.ZhuangTai = <<"u6210", "u529f">>
    /\ result.FaPiaoDaiMa = <<>>
    /\ result.FaPiaoHaoMa = <<>>
    /\ result.KaiPiaoRiQi = <<>>
    /\ result.JinE = 0
    /\ result.ShuiE = 0
    /\ result.JiaShuiHeJi = 0
    /\ result.ShuiLv = <<"0", "%">>

\* the text " 0", in which no field is found, has given a successful record
C19_Witness_EmptyFields ==
  /\ Extracted
  /\ PageText = <<" ", "0">>
  /\ result.ZhuangTai = <<"u6210", "u529f">>
  /\ result.FaPiaoDaiMa = <<>>

\* month or day in two digits
TwoDigitForm(n) == IF Len(n) = 1 THEN <<"0">> \o n ELSE n

\* year/month/day with month and day in two digits
Canonical(ymd) ==
  ymd[1] \o <<"/">> \o TwoDigitForm(ymd[2]) \o <<"/">> \o TwoDigitForm(ymd[3])

\* the date label occurs in t at position i and at no position before it
FirstDateLabelAt(t, i) ==
  /\ LiteralAt(t, i, DateLabel)
  /\ \A j \in 1..(i - 1) : ~LiteralAt(t, j, DateLabel)

\* C20: whichever of the two variants, spaced or compact, the first date of
\* a text is written in, 开票日期 is year/month/day of that date with month
\* and day in two digits; the first pattern of the list that matches decides,
\* so a later date in the text changes nothing
C20_DateFormatInvariant ==
  Extracted =>
    \A ymd \in Dates, spaced \in BOOLEAN, i \in 1..Len(PageText) :
      (/\ FirstDateLabelAt(PageText, i)
       /\ LiteralAt(PageText, i, DatePiece(spaced, ymd[1], ymd[2], ymd[3]))) =>
        result.KaiPiaoRiQi = Canonical(ymd)

\* the spaced form of 2024-3-5 followed by the compact form of 2024-12-25 has
\* given 2024/03/05
C20_Witness_SpacedThenCompact ==
  /\ Extracted
  /\ PageText = DatePiece(TRUE, <<"2", "0", "2", "4">>, <<"3">>, <<"5">>)
                  \o DatePiece(FALSE, <<"2", "0", "2", "4">>, <<"1", "2">>, <<"2", "5">>)
  /\ result.KaiPiaoRiQi = <<"2", "0", "2", "4", "/", "0", "3", "/", "0", "5">>

\* the digit runs that follow the code label at position i of t: the four
\* characters 发票代码, white space or none, a colon of either width, white
\* space or none, then digits up to the first character that is no digit
CodeRunsAt(t, i) ==
  IF i + 3 > Len(t) \/ SubSeq(t, i, i + 3) # <<"u53d1", "u7968", "u4ee3", "u7801">> THEN {}
  ELSE UNION {UNION {
    {SubSeq(t, a, b) : b \in {x \in a..Len(t) : AllDigits(t, a, x) /\ ~IsDigit(At(t, x + 1))}}
    : a \in {x \in (c + 1)..Len(t) : AllSpaces(t, c + 1, x - 1)}}
    : c \in {x \in (i + 4)..Len(t) : AllSpaces(t, i + 4, x - 1) /\ IsColon(t[x])}}

\* the positions of t at which the code label is followed by digits
CodeStarts(t) == {i \in 1..Len(t) : CodeRunsAt(t, i) # {}}

\* C21: for a text in which the label 发票代码 with its colon is followed by
\* digits, 发票代码 is the whole digit run after the first such label; for a
\* text in which the label does not occur, 发票代码 is ""
C21_CodeIsDigitRun ==
  Extracted =>
    /\ CodeStarts(PageText) # {} =>
         result.FaPiaoDaiMa \in CodeRunsAt(PageText, First(CodeStarts(PageText)))
    /\ (\A i \in 1..Len(PageText) : ~LiteralAt(PageText, i, CodeLabel)) =>
         result.FaPiaoDaiMa = <<>>

\* a text whose first code label has no digits after it and whose second has
\* 12 has given the code 12
C21_Witness_SecondLabelDecides ==
  /\ Extracted
  /\ Cardinality({i \in 1..Len(PageText) : LiteralAt(PageText, i, CodeLabel)}) = 2
  /\ Cardinality(CodeStarts(PageText)) = 1
  /\ result.FaPiaoDaiMa = <<"1", "2">>

(***************************************************************************)
(* Claims about the name resolver.                                         *)
(***************************************************************************)
\* extract_person_name has returned
Resolved == person_name # <<>>

\* what stands before the .pdf that ends the name s (a newline may follow
\* it): a set with one element, or none when s does not end so
StemsBeforePdf(s) ==
  {SubSeq(s, 1, n) : n \in {x \in {Len(s) - 4, Len(s) - 5} :
     /\ x >= 0
     /\ SubSeq(s, x + 1, x + 4) = <<".", "p", "d", "f">>
     /\ x + 4 = Len(s) \/ s[Len(s)] = "\n"}}

\* the number of ideographs s ends with
TrailingIdeographs(s) ==
  CHOOSE k \in 0..Len(s) :
    /\ \A j \in (Len(s) - k + 1)..Len(s) : s[j] \in Ideographs
    /\ k = Len(s) \/ s[Len(s) - k] \notin Ideographs

\* the last n characters of s
LastOf(s, n) == SubSeq(s, Len(s) - n + 1, Len(s))

\* s has the provider form up to its last n characters: 滴滴电子发票, digits,
\* _ or -, digits, _ or -, and then those n characters
ProviderStem(s, n) ==
  LET b == Len(s) - n
  IN  \E p \in {x \in 1..(b - 9) : s[x] = "u6ef4"}, a \in 1..(b - 2) :
        /\ p + 6 < a
        /\ SubSeq(s, p, p + 5) = <<"u6ef4", "u6ef4", "u7535", "u5b50", "u53d1", "u7968">>
        /\ AllDigits(s, p + 6, a - 1)
        /\ s[a] \in {"_", "-"}
        /\ AllDigits(s, a + 1, b - 1)
        /\ s[b] \in {"_", "-"}

\* C22: for a file name that ends with two or more ideographs and .pdf, the
\* resolver returns what a pattern captured, 2 to 4 characters long: the
\* ideographs standing immediately before .pdf, the last four of them when
\* there are more; where the name has the provider form this is the name
\* after the second separator; 滴滴电子发票123_456_张三.pdf gives 张三 and
\* 王小明.pdf gives 王小明
C22_FirstPatternCaptureWins ==
  Resolved =>
    \A stem \in StemsBeforePdf(file_name) :
      LET k == TrailingIdeographs(stem)
      IN  k >= 2 =>
            /\ Len(person_name) \in 2..4
            /\ person_name = LastOf(stem, IF k > 4 THEN 4 ELSE k)
            /\ \A n \in 2..4 :
                 (k = n /\ ProviderStem(stem, n)) =>
                   person_name = LastOf(stem, n)

\* 滴滴电子发票123_456_张三.pdf has given 张三
C22_Witness_ProviderName ==
  /\ file_name = <<"u6ef4", "u6ef4", "u7535", "u5b50", "u53d1", "u7968", "1", "2", "3", "_",
                    "4", "5", "6", "_", "u5f20", "u4e09", ".", "p", "d", "f">>
  /\ person_name = <<"u5f20", "u4e09">>

\* the name s without its extension .pdf
WithoutExtension(s) ==
  IF Len(s) >= 4 /\ LastOf(s, 4) = <<".", "p", "d", "f">> THEN SubSeq(s, 1, Len(s) - 4)
  ELSE s

\* the unbroken stretches of ideographs of s, as <<first position, length>>
Stretches(s) ==
  {<<a, b - a + 1>> : a \in 1..Len(s), b \in 1..Len(s)} \cap
  {r \in (1..Len(s)) \X (1..Len(s)) :
     /\ \A j \in r[1]..(r[1] + r[2] - 1) : s[j] \in Ideographs
     /\ r[1] = 1 \/ s[r[1] - 1] \notin Ideographs
     /\ r[1] + r[2] - 1 = Len(s) \/ s[r[1] + r[2]] \notin Ideographs}

\* a length cut to four
UpToFour(n) == IF n > 4 THEN 4 ELSE n

\* the longest run of 2 to 4 ideographs of s, the first of the longest in
\* scan order, or 未知 when s has no two ideographs in a row
LongestRun(s) ==
  LET runs == {r \in Stretches(s) : r[2] >= 2}
  IN  IF runs = {} THEN <<"u672a", "u77e5">>
      ELSE LET best == CHOOSE r \in runs :
                         /\ \A q \in runs : UpToFour(q[2]) <= UpToFour(r[2])
                         /\ \A q \in runs : q[1] < r[1] => UpToFour(q[2]) < UpToFour(r[2])
           IN  SubSeq(s, best[1], best[1] + UpToFour(best[2]) - 1)

\* C23: when no pattern matches the file name, the resolver returns the
\* longest run of 2 to 4 ideographs of the name without its extension, the
\* first one among runs of equal length, and 未知 when there is none; it
\* returns a string for every file name
C23_FallbackLongestRun ==
  Resolved =>
    /\ Len(person_name) >= 2
    /\ (\A stem \in StemsBeforePdf(file_name) : TrailingIdeographs(stem) < 2) =>
         person_name = LongestRun(WithoutExtension(file_name))

(***************************************************************************)
(* Claims about classify_pdfs on a source folder an earlier run staged.    *)
(***************************************************************************)
\* the identities of the regular files lying directly in folder p of f
FilesIn(f, p) ==
  {f[q] : q \in {r \in DOMAIN f : Len(r) = Len(p) + 1 /\ Below(p, r)}} \ {DirNode}

\* C30: when classify_pdfs has returned, every file that lay in the source
\* folder or in the staged tree before the call lies at exactly one path, in
\* the source folder or in a category folder of the staged tree, and every
\* file staged before the call is still at its path
C30_ClassifyConservesFiles ==
  pc = "classified" =>
    /\ \A id \in FilesIn(fs0, folder_path) \cup FilesBelow(fs0, StagingRoot) :
         /\ Cardinality(PathsOf(fs, id)) = 1
         /\ \A q \in PathsOf(fs, id) :
              \/ Len(q) = Len(folder_path) + 1 /\ Below(folder_path, q)
              \/ Len(q) = Len(StagingRoot) + 2 /\ Below(StagingRoot, q)
    /\ \A q \in DOMAIN fs0 :
         (Below(StagingRoot, q) /\ fs0[q] # DirNode) => (q \in DOMAIN fs /\ fs[q] = fs0[q])

(***************************************************************************)
(* C24: defaults of the enrichment fields                                  *)
(***************************************************************************)
\* the three enrichment columns of a row
EnrichmentColumns(row) == {row.shenheyuefen, row.shiyebu, row.daxiangmu}

\* a value that starts with 未选择
StartsNotSelected(v) ==
  Len(v) >= 3 /\ v[1] = "u672a" /\ v[2] = "u9009" /\ v[3] = "u62e9"

\* the values of the options and of the enrichment fields of the records
SuppliedValues ==
  {user_selected_options[k] : k \in DOMAIN user_selected_options}
    \cup UNION {{current_results[i][k] :
                   k \in DOMAIN current_results[i] \cap {"ShiYeBu", "DaXiangMu", "ShenHeYueFen"}} :
                  i \in 1..Len(current_results)}
    \cup UNION {EnrichmentColumns(invoices[i]) : i \in 1..Len(invoices)}

SheetShown == DOMAIN exported # {}

\* the keys the exported records have
RecordKeys == UNION {DOMAIN current_results[i] : i \in 1..Len(current_results)}

\* the preferred order: 费用所属月份(审核月份), 事业部, 大项目, 文件名, 姓名,
\* 发票代码, 发票号码, 开票日期, 金额, 税率, 税额, 价税合计, 状态
PreferredOrder ==
  <<"ShenHeYueFen", "ShiYeBu", "DaXiangMu", "WenJianMing", "XingMing", "FaPiaoDaiMa",
    "FaPiaoHaoMa", "KaiPiaoRiQi", "JinE", "ShuiLv", "ShuiE", "JiaShuiHeJi", "ZhuangTai">>

\* the preferred columns that the records have, in the preferred order
PreferredPresent == LET present(k) == k \in RecordKeys IN SelectSeq(PreferredOrder, present)

\* the columns of a sheet, as a set
ColumnSet(sheet) == {sheet.columns[j] : j \in 1..Len(sheet.columns)}

\* C25 as stated: the sheet starts with the preferred columns the records
\* have, in the preferred order, and holds every other column of the
\* records after them; no column of the records is dropped.
C25_ExportDropsNoColumn ==
  SheetShown =>
    /\ Len(exported.columns) >= Len(PreferredPresent)
    /\ SubSeq(exported.columns, 1, Len(PreferredPresent)) = PreferredPresent
    /\ ColumnSet(exported) = RecordKeys

\* C25, amended: the sheet holds exactly the preferred columns the records
\* have, in the preferred order, and one row per record in the order of the
\* records, with the value of the record or NaN; a column outside the
\* preferred order, such as 提取时间, is left out.
C25_ExportKeepsPreferredOnly ==
  SheetShown =>
    /\ exported.columns = PreferredPresent
    /\ "TiQuShiJian" \in RecordKeys \ ColumnSet(exported)
    /\ Len(exported.rows) = Len(current_results)
    /\ \A i \in 1..Len(current_results) :
         /\ Len(exported.rows[i]) = Len(PreferredPresent)
         /\ \A j \in 1..Len(PreferredPresent) :
              LET k == PreferredPresent[j]
              IN  IF k \in DOMAIN current_results[i]
                  THEN exported.rows[i][j] = current_results[i][k]
                  ELSE exported.rows[i][j] = "NaN"

\* a sheet of a failure record followed by a record with all fields
C25_Witness_MixedRecordsExported ==
  /\ SheetShown
  /\ Len(current_results) = 2
  /\ "FaPiaoDaiMa" \notin DOMAIN current_results[1]
  /\ "FaPiaoDaiMa" \in DOMAIN current_results[2]
  /\ Len(exported.columns) = 13

(***************************************************************************)
(* C26 to C29: the steps of a batch on the extraction page                 *)
(***************************************************************************)
\* a run of the script is in _process_next_file: the index moves
StepTaken == page_pc = "run" /\ current_file_index' # current_file_index

\* the record at position i of a list is a record for path p
RecordFor(records, i, p) == records[i].WenJianMing = os_path_basename(p)

\* C26: a step of the loop adds exactly one to current_file_index and
\* appends exactly one record, for the path at the old index, to
\* current_results; and when the step ends the batch, current_results holds
\* one record for each path of file_paths, in the order of the paths.
C26_OneRecordPerStep ==
  [][StepTaken =>
       /\ current_file_index' = current_file_index + 1
       /\ Len(current_results') = Len(current_results) + 1
       /\ SubSeq(current_results', 1, Len(current_results)) = current_results
       /\ RecordFor(current_results', Len(current_results'), file_paths[current_file_index + 1])
       /\ current_file_index' >= Len(file_paths) =>
            /\ Len(current_results') = Len(file_paths)
            /\ \A i \in 1..Len(file_paths) : RecordFor(current_results', i, file_paths[i])
  ]_vars

\* C27: in every state of the page, 0 <= current_file_index <=
\* len(file_paths), len(current_results) <= current_file_index, and paused
\* implies processing.
C27_IndexWithinBatch ==
  /\ 0 <= current_file_index
  /\ current_file_index <= Len(file_paths)
  /\ Len(current_results) <= current_file_index
  /\ paused => processing

\* C28: a batch that was started and is never stopped, with every pause
\* followed by a resume, reaches current_file_index = len(file_paths) with
\* processing false.
C28_BatchRunsToItsEnd ==
  processing ~> (~processing /\ current_file_index = Len(file_paths))

\* the sink was called in the step: a row was added, or the call failed
SinkCalled ==
  \/ Len(invoices') = Len(invoices) + 1
  \/ Len(current_results') = Len(current_results)

\* the batch goes on by itself after the step: the script runs again, or
\* the batch is at its end
GoesOn ==
  \/ page_pc' = "rerun"
  \/ ~processing' /\ current_file_index' = Len(file_paths)

\* C29: a step hands a record to the sink only when its 状态 is 成功, and
\* at most once; a failure record is appended to current_results and not
\* persisted; and when the sink fails the batch goes on.
C29_SinkOnlyOnSuccess ==
  [][StepTaken =>
       /\ Len(invoices') \in {Len(invoices), Len(invoices) + 1}
       /\ SubSeq(invoices', 1, Len(invoices)) = invoices
       /\ Len(invoices') > Len(invoices) =>
            /\ invoices'[Len(invoices')].status = <<"u6210", "u529f">>
            /\ current_results'[Len(current_results')].ZhuangTai = <<"u6210", "u529f">>
       /\ \A i \in 1..Len(current_results') :
            current_results'[i].ZhuangTai # <<"u6210", "u529f">> =>
              /\ \A j \in 1..Len(invoices') : invoices'[j].status # current_results'[i].ZhuangTai
       /\ GoesOn
  ]_vars


====
